---- MODULE Spec2Model ----
(***************************************************************************)
(* pst: the concurrent row-synchronized merge engine (parseData,           *)
(* processData, printRow, fileParser) and the rowRangeSlice row filter of  *)
(* src/pst.go.                                                             *)
(*                                                                         *)
(* Spec is the run of parseData: one fileParser goroutine per input file,  *)
(* a buffered data channel per file, the shared error channel, the done    *)
(* channel and the WaitGroup.  SpecRowFilter applies the pure functions    *)
(* rowRangeSlice.contains and rowRangeSlice.maxEntry to bounded inputs.    *)
(* SpecArgs is the start of main: the spec strings of -i and -o parsed by  *)
(* getInputSpec and getOutputSpec, and the first use of their results.     *)
(* SpecRows applies getRowSpec and then contains to row spec strings.      *)
(* SpecCompute applies getComputeSpecs to the text of -c and then printRow *)
(* to rows, and records what is written to standard output.                *)
(* SpecStats feeds the values of a row to updateMedian, variance and       *)
(* median (src/unnamed/part_001).                                          *)
(***************************************************************************)
EXTENDS Integers, Sequences, FiniteSets

(***************************************************************************)
(* Bounds of the model.                                                    *)
(***************************************************************************)
\* largest number of input files of a run
MaxFiles == 2
\* largest number of lines of an input file
MaxLines == 2
\* capacity of a data channel (10000 in parseData, scaled down)
ChanCap == 1
\* rowRangeSlice inputs of SpecRowFilter: largest row index and most ranges
MaxRowIdx == 3
MaxRanges == 3
\* largest number of per-file specifiers of an input spec
MaxSpecs == 2
\* largest number of column specifiers (a, a-b) of one list
MaxTokens == 2
\* largest column index written in a spec string
MaxCol == 2
\* largest length of a spec string that is not built from specifiers
MaxRawLen == 3
\* largest number of values of a row fed to the statistics
MaxVec == 5

\* math.MaxInt64, the result of maxEntry for the empty filter.  TLC's
\* integers are 32 bit wide, so the sentinel is the largest of those; every
\* row index of the model is far below it.
MaxInt64 == 2147483647

(***************************************************************************)
(* rowRange, rowRangeSlice                                                 *)
(***************************************************************************)
rowRange(b, e) == [b |-> b, e |-> e]

\* a plausible slip: the scan gives up at the first range that ends before v
containsLoop_StopAtFirst(rr, k, v) ==
    IF k > Len(rr) THEN FALSE
    ELSE IF v < rr[k].b THEN FALSE
    ELSE v <= rr[k].e

\* the loop of contains, from range k on
RECURSIVE containsLoop(_, _, _)
containsLoop(rr, k, v) ==
    IF k > Len(rr) THEN FALSE
    ELSE IF v < rr[k].b THEN FALSE
    ELSE IF v <= rr[k].e THEN TRUE
    ELSE containsLoop(rr, k + 1, v)

contains(rr, v) ==
    IF Len(rr) = 0 THEN TRUE ELSE containsLoop(rr, 1, v)

\* a plausible slip: the end of the last range (right only if sorted by end)
maxEntryLoop_Last(rr, k, max) == rr[Len(rr)].e

\* the loop of maxEntry, from range k on, with the running maximum max
RECURSIVE maxEntryLoop(_, _, _)
maxEntryLoop(rr, k, max) ==
    IF k > Len(rr) THEN max
    ELSE maxEntryLoop(rr, k + 1, IF max < rr[k].e THEN rr[k].e ELSE max)

maxEntry(rr) ==
    IF Len(rr) = 0 THEN MaxInt64 ELSE maxEntryLoop(rr, 1, 0)

\* sort.Sort(rowRanges) orders by Less: rr[i].b < rr[j].b
SortedByBegin(rr) == \A i, j \in 1..Len(rr) : i < j => rr[i].b <= rr[j].b

(***************************************************************************)
(* Inputs of a run: the files, and the arguments of parseData.             *)
(***************************************************************************)
\* the lines a file may hold: one field, or two fields with blanks around
Texts == {"1", " 2 x "}

\* strings.TrimSpace(text) of a line
TrimLine(text) == IF text = " 2 x " THEN "2 x" ELSE text

\* strings.FieldsFunc(strings.TrimSpace(text), sepFun), sepFun = unicode.IsSpace
FieldsFunc(text) ==
    CASE TrimLine(text) = "1" -> <<"1">>
      [] TrimLine(text) = "2 x" -> <<"2", "x">>
      [] OTHER -> <<>>

\* strconv.ParseFloat(strings.TrimSpace(item), 64): does it succeed, its value
CanParseFloat(item) == item \in {"1", "2"}
ParseFloat(item) == IF item = "1" THEN 1 ELSE IF item = "2" THEN 2 ELSE 0

SeqsUpTo(S, n) == UNION {[1..k -> S] : k \in 0..n}

\* a file: os.Open fails, or the scanner delivers lines and ends without
\* an error, or it fails on a read before the last line it could hold
NoFile == [exists |-> FALSE, lines |-> <<>>, scanErr |-> FALSE]
Files ==
    {NoFile} \cup
    {[exists |-> TRUE, lines |-> l, scanErr |-> FALSE] :
        l \in SeqsUpTo(Texts, MaxLines)} \cup
    {[exists |-> TRUE, lines |-> l, scanErr |-> TRUE] :
        l \in SeqsUpTo(Texts, MaxLines - 1)}

\* parseSpec values: the input columns of the files
ColSpecs == {<<>>, <<0>>, <<1, 0>>}
\* row filters as getRowSpec returns them: sorted by begin, 0 <= b <= e
RowSpecs == {<<>>, <<rowRange(0, 0)>>, <<rowRange(1, 1)>>}
\* output columns and compute actions (by name) of a run: raw rows, raw
\* rows with an output spec, statistics
Modes == {[outCols |-> <<>>, actions |-> <<>>],
          [outCols |-> <<1, 0, 1>>, actions |-> <<>>],
          [outCols |-> <<>>, actions |-> <<"max", "mean">>]}

\* error values
NoErr == [kind |-> "nil", file |-> 0, col |-> -1]
OpenErr(f) == [kind |-> "open", file |-> f, col |-> -1]
ScanErr(f) == [kind |-> "scan", file |-> f, col |-> -1]
\* a plausible slip: the message without the file name
ColumnErr_NoFile(f, c) == [kind |-> "column", file |-> 0, col |-> c]
ColumnErr(f, c) == [kind |-> "column", file |-> f, col |-> c]
FloatErr == [kind |-> "float", file |-> 0, col |-> -1]

VARIABLES
    \* arguments of parseData and the files behind fileNames
    fileNames, inCols, outCols, rowRanges, actions,
    \* parseData: channels and WaitGroup
    dataChs, dataClosed, errCh, errClosed, done, wg,
    \* fileParser, per file: position in the code, count, row, err, and the
    \* way it left the scan loop ("eof", "break", "error", "done")
    fpc, count, frow, ferr, fexit,
    \* processData: position in the code and locals; err is its result
    mpc, row, i, in, inRow, defaultInRows, deadChannels, activeChannels,
    output, err,
    \* history: per file the indices of the lines sent on its data channel
    \* and the rows sent, the merged row (inRow) of every printed row
    sentLines, sentRows, merged,
    \* input and result of a pure function (SpecRowFilter)
    calc

cfgVars == <<fileNames, inCols, outCols, rowRanges, actions>>
chanVars == <<dataChs, dataClosed, errCh, errClosed, done, wg>>
parserVars == <<fpc, count, frow, ferr, fexit>>
procVars == <<mpc, row, i, in, inRow, defaultInRows, deadChannels,
              activeChannels, output, err>>
histVars == <<sentLines, sentRows, merged>>
vars == <<cfgVars, chanVars, parserVars, procVars, histVars, calc>>

NumFiles == Len(fileNames)
FileIds == 1..NumFiles

NoCalc == [op |-> "none", rr |-> <<>>, v |-> 0, found |-> FALSE, max |-> 0]

\* the state in which parseData has started every fileParser (lines 151-162)
\* and processData has set up its locals (lines 176-182); the files share
\* one column spec, as when getInputSpec pads a single specifier
Init ==
    /\ \E n \in 1..MaxFiles :
         /\ fileNames \in [1..n -> Files]
         /\ \E c \in ColSpecs : inCols = [f \in 1..n |-> c]
    /\ \E m \in Modes : outCols = m.outCols /\ actions = m.actions
    /\ rowRanges \in RowSpecs
    /\ dataChs = [f \in FileIds |-> <<>>]
    /\ dataClosed = [f \in FileIds |-> FALSE]
    /\ errCh = <<>>
    /\ errClosed = FALSE
    /\ done = FALSE
    /\ wg = NumFiles
    /\ fpc = [f \in FileIds |-> "open"]
    /\ count = [f \in FileIds |-> -1]
    /\ frow = [f \in FileIds |-> <<>>]
    /\ ferr = [f \in FileIds |-> NoErr]
    /\ fexit = [f \in FileIds |-> ""]
    /\ mpc = "select"
    /\ row = 0
    /\ i = 1
    /\ in = 0
    /\ inRow = <<>>
    /\ defaultInRows = [f \in FileIds |-> <<>>]
    /\ deadChannels = [f \in FileIds |-> FALSE]
    /\ activeChannels = NumFiles
    /\ output = <<>>
    /\ err = NoErr
    /\ sentLines = [f \in FileIds |-> <<>>]
    /\ sentRows = [f \in FileIds |-> <<>>]
    /\ merged = <<>>
    /\ calc = NoCalc

(***************************************************************************)
(* fileParser(fileName, colSpec, rowRanges, sepFun, data, done, errCh, wg) *)
(***************************************************************************)
\* the process is alive: a panic of processData ends every goroutine
Running == mpc # "panic"

\* the columns of colSpec that the line does not have, as positions of colSpec
MissingCols(colSpec, items) ==
    {k \in 1..Len(colSpec) : colSpec[k] >= Len(items)}

Min(S) == CHOOSE x \in S : \A y \in S : x <= y

\* the row built from a line (lines 284-299); columns are 0-based
BuildRow(colSpec, text) ==
    IF Len(colSpec) = 0 THEN <<text>>
    ELSE [k \in 1..Len(colSpec) |-> FieldsFunc(text)[colSpec[k] + 1]]

\* errCh <- e: the channel has room for one error per file
CanSendErr == Len(errCh) < NumFiles /\ ~errClosed

\* a plausible slip: the exit one line early
PastMaxRow_OffByOne(c, rr) == c >= maxEntry(rr)

\* count > maxRow: the early exit of the scan loop (lines 277-279)
PastMaxRow(c, rr) == c > maxEntry(rr)

\* os.Open (lines 263-268)
Open(f) ==
    /\ Running
    /\ fpc[f] = "open"
    /\ IF fileNames[f].exists
         THEN /\ fpc' = [fpc EXCEPT ![f] = "scan"]
              /\ UNCHANGED <<errCh, ferr, fexit>>
         ELSE /\ CanSendErr
              /\ errCh' = Append(errCh, OpenErr(f))
              /\ ferr' = [ferr EXCEPT ![f] = OpenErr(f)]
              /\ fexit' = [fexit EXCEPT ![f] = "error"]
              /\ fpc' = [fpc EXCEPT ![f] = "close"]
    /\ UNCHANGED <<cfgVars, dataChs, dataClosed, errClosed, done, wg, count,
                   frow, procVars, histVars, calc>>

\* one pass of the scan loop up to the select (lines 273-299), or its end
\* and the check of scanner.Err() (lines 307-310)
Scan(f) ==
    /\ Running
    /\ fpc[f] = "scan"
    /\ LET file == fileNames[f]
           c == count[f] + 1
           text == file.lines[c + 1]
           missing == MissingCols(inCols[f], FieldsFunc(text))
       IN
       IF c >= Len(file.lines)
         THEN \* scanner.Scan() is false
              /\ IF file.scanErr
                   THEN /\ CanSendErr
                        /\ errCh' = Append(errCh, ScanErr(f))
                        /\ ferr' = [ferr EXCEPT ![f] = ScanErr(f)]
                        /\ fexit' = [fexit EXCEPT ![f] = "error"]
                   ELSE /\ fexit' = [fexit EXCEPT ![f] = "eof"]
                        /\ UNCHANGED <<errCh, ferr>>
              /\ fpc' = [fpc EXCEPT ![f] = "close"]
              /\ UNCHANGED <<count, frow>>
         ELSE /\ count' = [count EXCEPT ![f] = c]
              /\ IF PastMaxRow(c, rowRanges)
                   THEN \* break; scanner.Err() is nil
                        /\ fpc' = [fpc EXCEPT ![f] = "close"]
                        /\ fexit' = [fexit EXCEPT ![f] = "break"]
                        /\ UNCHANGED <<errCh, ferr, frow>>
                   ELSE IF ~contains(rowRanges, c)
                   THEN \* continue
                        UNCHANGED <<errCh, ferr, frow, fpc, fexit>>
                   ELSE IF Len(inCols[f]) > 0 /\ missing # {}
                   THEN /\ CanSendErr
                        /\ errCh' = Append(errCh,
                               ColumnErr(f, inCols[f][Min(missing)]))
                        /\ ferr' = [ferr EXCEPT ![f] =
                               ColumnErr(f, inCols[f][Min(missing)])]
                        /\ fexit' = [fexit EXCEPT ![f] = "error"]
                        /\ fpc' = [fpc EXCEPT ![f] = "close"]
                        /\ UNCHANGED frow
                   ELSE /\ frow' = [frow EXCEPT ![f] = BuildRow(inCols[f], text)]
                        /\ fpc' = [fpc EXCEPT ![f] = "send"]
                        /\ UNCHANGED <<errCh, ferr, fexit>>
    /\ UNCHANGED <<cfgVars, dataChs, dataClosed, errClosed, done, wg,
                   procVars, histVars, calc>>

\* a plausible slip: a data channel without a bound
CanSend_Unbounded(f) == TRUE

\* data <- row is ready while the buffer of the channel (line 157) has room
CanSend(f) == Len(dataChs[f]) < ChanCap

\* select, case data <- row (line 302)
Send(f) ==
    /\ Running
    /\ fpc[f] = "send"
    /\ CanSend(f)
    /\ dataChs' = [dataChs EXCEPT ![f] = Append(@, frow[f])]
    /\ sentLines' = [sentLines EXCEPT ![f] = Append(@, count[f])]
    /\ sentRows' = [sentRows EXCEPT ![f] = Append(@, frow[f])]
    /\ fpc' = [fpc EXCEPT ![f] = "scan"]
    /\ UNCHANGED <<cfgVars, dataClosed, errCh, errClosed, done, wg, count,
                   frow, ferr, fexit, procVars, merged, calc>>

\* a plausible slip: the send without the done case
DoneClosed_Never == FALSE

\* a plausible slip: done closed before processData has returned
DoneClosed_Early == TRUE

\* <-done is ready once parseData has closed done
DoneClosed == done

\* select, case <-done: return (lines 303-304)
Cancel(f) ==
    /\ Running
    /\ fpc[f] = "send"
    /\ DoneClosed
    /\ fpc' = [fpc EXCEPT ![f] = "close"]
    /\ fexit' = [fexit EXCEPT ![f] = "done"]
    /\ UNCHANGED <<cfgVars, chanVars, count, frow, ferr, procVars, histVars,
                   calc>>

\* a plausible slip: a return that leaves the data channel open
close_Skipped(closed, f) == closed

\* close(data): the channel of file f is closed
close(closed, f) == [closed EXCEPT ![f] = TRUE]

\* defer close(data) (line 260)
CloseData(f) ==
    /\ Running
    /\ fpc[f] = "close"
    /\ dataClosed' = close(dataClosed, f)
    /\ fpc' = [fpc EXCEPT ![f] = "wgDone"]
    /\ UNCHANGED <<cfgVars, dataChs, errCh, errClosed, done, wg, count, frow,
                   ferr, fexit, procVars, histVars, calc>>

\* defer wg.Done() (line 259)
WgDone(f) ==
    /\ Running
    /\ fpc[f] = "wgDone"
    /\ wg' = wg - 1
    /\ fpc' = [fpc EXCEPT ![f] = "exited"]
    /\ UNCHANGED <<cfgVars, dataChs, dataClosed, errCh, errClosed, done,
                   count, frow, ferr, fexit, procVars, histVars, calc>>

(***************************************************************************)
(* float64 values and their arithmetic.  A value is the exact fraction     *)
(* n/d in lowest terms with d > 0; rounding is not modelled.               *)
(***************************************************************************)
Abs(x) == IF x < 0 THEN -x ELSE x
RECURSIVE GCD(_, _)
GCD(a, b) == IF b = 0 THEN a ELSE GCD(b, a % b)

Frac(n, d) ==
    LET g == GCD(Abs(n), d) IN [n |-> n \div g, d |-> d \div g]
Float(x) == [n |-> x, d |-> 1]
NaN == [n |-> 0, d |-> 0]
FNeg(x) == [n |-> -x.n, d |-> x.d]
FAdd(x, y) == Frac(x.n * y.d + y.n * x.d, x.d * y.d)
FSub(x, y) == FAdd(x, FNeg(y))
FMul(x, y) == Frac(x.n * y.n, x.d * y.d)
\* x / float64(k) for a count k > 0
FDivInt(x, k) == Frac(x.n, x.d * k)
FLess(x, y) == x.n * y.d < y.n * x.d

(***************************************************************************)
(* The statistics of a row: min, max, mean, variance, median and the       *)
(* running median of updateMedian (src/unnamed/part_001).                  *)
(***************************************************************************)
\* min and max: the loops from the k-th value on; the start values
\* math.MaxFloat64 and -math.MaxFloat64 are beyond every value of a row
RECURSIVE minLoop(_, _, _)
minLoop(fs, k, minVal) ==
    IF k > Len(fs) THEN minVal
    ELSE minLoop(fs, k + 1, IF FLess(fs[k], minVal) THEN fs[k] ELSE minVal)
min(fs) == minLoop(fs, 1, Float(MaxInt64))

RECURSIVE maxLoop(_, _, _)
maxLoop(fs, k, maxVal) ==
    IF k > Len(fs) THEN maxVal
    ELSE maxLoop(fs, k + 1, IF FLess(maxVal, fs[k]) THEN fs[k] ELSE maxVal)
max(fs) == maxLoop(fs, 1, Float(-MaxInt64))

RECURSIVE sumLoop(_, _, _)
sumLoop(items, k, sum) ==
    IF k > Len(items) THEN sum ELSE sumLoop(items, k + 1, FAdd(sum, items[k]))
mean(items) ==
    IF Len(items) = 0 THEN NaN
    ELSE FDivInt(sumLoop(items, 1, Float(0)), Len(items))

\* a plausible slip: the mean updated before it is used for qk
varianceStep_MeanFirst(k, d, mk, qk) ==
    LET mk1 == FAdd(mk, FDivInt(FSub(d, mk), k))
    IN  [mk |-> mk1,
         qk |-> FAdd(qk, FDivInt(FMul(Float(k - 1),
                                      FMul(FSub(d, mk1), FSub(d, mk1))), k))]

\* one pass of the loop of variance: item d is the k-th (k = i + 1)
varianceStep(k, d, mk, qk) ==
    [qk |-> FAdd(qk, FDivInt(FMul(Float(k - 1),
                                  FMul(FSub(d, mk), FSub(d, mk))), k)),
     mk |-> FAdd(mk, FDivInt(FSub(d, mk), k))]

RECURSIVE varianceLoop(_, _, _, _)
varianceLoop(items, k, mk, qk) ==
    IF k > Len(items) THEN qk
    ELSE LET st == varianceStep(k, items[k], mk, qk)
         IN  varianceLoop(items, k + 1, st.mk, st.qk)

variance(items) ==
    IF Len(items) > 1
      THEN FDivInt(varianceLoop(items, 1, Float(0), Float(0)), Len(items) - 1)
      ELSE Float(0)

\* FloatHeap with container/heap: a min-heap, its least value at index 0.
\* The heap is kept as the ascending sequence of its values.
RECURSIVE HeapPush(_, _)
HeapPush(h, x) ==
    IF Len(h) = 0 THEN <<x>>
    ELSE IF FLess(x, h[1]) THEN <<x>> \o h
    ELSE <<h[1]>> \o HeapPush(Tail(h), x)
HeapTop(h) == h[1]
HeapPop(h) == Tail(h)

\* newMedData()
newMedData == [smaller |-> <<>>, larger |-> <<>>, val |-> Float(0),
               panic |-> FALSE]

\* a plausible slip: every value put into smaller
insertValue_IntoSmaller(m, v) == [m EXCEPT !.smaller = HeapPush(@, FNeg(v))]

\* updateMedian, the insertion of v into one of the heaps; smaller holds
\* the negated values
insertValue(m, v) ==
    IF Len(m.smaller) = 0 /\ Len(m.larger) = 0
      THEN [m EXCEPT !.smaller = HeapPush(@, FNeg(v))]
    ELSE IF Len(m.smaller) = 0
      THEN IF FLess(HeapTop(m.larger), v)
             THEN [m EXCEPT
                     !.smaller = HeapPush(@, FNeg(HeapTop(m.larger))),
                     !.larger = HeapPush(HeapPop(@), v)]
             ELSE [m EXCEPT !.smaller = HeapPush(@, FNeg(v))]
    ELSE IF Len(m.larger) = 0
      THEN IF FLess(v, FNeg(HeapTop(m.smaller)))
             THEN [m EXCEPT
                     !.larger = HeapPush(@, FNeg(HeapTop(m.smaller))),
                     !.smaller = HeapPush(HeapPop(@), FNeg(v))]
             ELSE [m EXCEPT !.larger = HeapPush(@, v)]
    ELSE IF FLess(v, m.val)
      THEN [m EXCEPT !.smaller = HeapPush(@, FNeg(v))]
    ELSE IF FLess(m.val, v)
      THEN [m EXCEPT !.larger = HeapPush(@, v)]
    ELSE IF Len(m.smaller) <= Len(m.larger)
      THEN [m EXCEPT !.smaller = HeapPush(@, FNeg(v))]
      ELSE [m EXCEPT !.larger = HeapPush(@, v)]

\* a plausible slip: the heaps never rebalanced
fixUpHeaps_Never(m) == m

\* updateMedian, the fix up of heaps that differ in length by 2
fixUpHeaps(m) ==
    IF Len(m.smaller) = Len(m.larger) + 2
      THEN [m EXCEPT !.larger = HeapPush(@, FNeg(HeapTop(m.smaller))),
                     !.smaller = HeapPop(@)]
    ELSE IF Len(m.larger) = Len(m.smaller) + 2
      THEN [m EXCEPT !.smaller = HeapPush(@, FNeg(HeapTop(m.larger))),
                     !.larger = HeapPop(@)]
    ELSE m

\* a plausible slip: no average for heaps of equal length
newMedian_NoAverage(m) ==
    IF Len(m.smaller) > Len(m.larger) THEN FNeg(HeapTop(m.smaller))
    ELSE HeapTop(m.larger)

\* updateMedian, the new median
newMedian(m) ==
    IF Len(m.smaller) = Len(m.larger)
      THEN FDivInt(FSub(HeapTop(m.larger), HeapTop(m.smaller)), 2)
    ELSE IF Len(m.smaller) > Len(m.larger) THEN FNeg(HeapTop(m.smaller))
    ELSE HeapTop(m.larger)

\* updateMedian(m, v); panic is the log.Panic at its end
updateMedian(m, v) ==
    LET fixed == fixUpHeaps(insertValue(m, v))
    IN  [fixed EXCEPT !.val = newMedian(fixed),
                      !.panic = Abs(Len(fixed.smaller) - Len(fixed.larger)) > 1]

\* median(fs): the loop from the k-th value on
RECURSIVE medianLoop(_, _, _)
medianLoop(fs, k, m) ==
    IF k > Len(fs) THEN m ELSE medianLoop(fs, k + 1, updateMedian(m, fs[k]))
median(fs) == medianLoop(fs, 1, newMedData).val

(***************************************************************************)
(* processData(dataChs, errCh, outCols, outSep, actions)                   *)
(***************************************************************************)
\* make([]string, n)
MakeStrings(n) == [k \in 1..n |-> ""]

\* a plausible slip: the columns of a source put in front of the row
AppendCols_InFront(r, cols) == cols \o r

\* the loops over cols at lines 202-204 (row 0) and 207-210 (later rows)
AppendCols(r, cols) == r \o cols
StoreCols(r, at, cols) ==
    [k \in 1..Len(r) |->
        IF at < k /\ k <= at + Len(cols) THEN cols[k - at] ELSE r[k]]

\* a plausible slip: no deadChannels check, one decrement per nil received
ActiveAfterClose_Always(c) == activeChannels - 1

\* a plausible slip: the decrement forgotten
ActiveAfterClose_Never(c) == activeChannels

\* activeChannels after channel c was found closed (lines 190-193)
ActiveAfterClose(c) ==
    IF ~deadChannels[c] THEN activeChannels - 1 ELSE activeChannels

\* what processData does with cols received for channel i (lines 199-211),
\* then the next channel, or the print of the row after the last one
TakeCols(cols) ==
    /\ IF row = 0
         THEN /\ inRow' = AppendCols(inRow, cols)
              /\ defaultInRows' =
                     [defaultInRows EXCEPT ![i] = MakeStrings(Len(cols))]
              /\ in' = in
              /\ mpc' = IF i = NumFiles THEN "print" ELSE "select"
         ELSE /\ UNCHANGED defaultInRows
              /\ IF in + Len(cols) > Len(inRow)
                   THEN \* inRow[in]: index out of range
                        /\ mpc' = "panic"
                        /\ UNCHANGED <<inRow, in>>
                   ELSE /\ inRow' = StoreCols(inRow, in, cols)
                        /\ in' = in + Len(cols)
                        /\ mpc' = IF i = NumFiles THEN "print" ELSE "select"
    /\ i' = IF i = NumFiles THEN 1 ELSE i + 1

\* select, case cols := <-ch (lines 188-211): a row, or nil from a closed
\* and drained channel
RecvData ==
    /\ mpc = "select"
    /\ \/ /\ Len(dataChs[i]) > 0
          /\ dataChs' = [dataChs EXCEPT ![i] = Tail(@)]
          /\ TakeCols(Head(dataChs[i]))
          /\ UNCHANGED <<deadChannels, activeChannels, err>>
       \/ /\ Len(dataChs[i]) = 0
          /\ dataClosed[i]
          /\ deadChannels' = [deadChannels EXCEPT ![i] = TRUE]
          /\ activeChannels' = ActiveAfterClose(i)
          /\ IF activeChannels' = 0
               THEN \* return nil
                    /\ mpc' = "closeDone"
                    /\ err' = NoErr
                    /\ UNCHANGED <<i, in, inRow, defaultInRows>>
               ELSE /\ TakeCols(defaultInRows[i])
                    /\ UNCHANGED err
          /\ UNCHANGED dataChs
    /\ UNCHANGED <<cfgVars, dataClosed, errCh, errClosed, done, wg,
                   parserVars, row, output, histVars, calc>>

\* select, case err := <-errCh: return err (lines 212-213)
RecvErr ==
    /\ mpc = "select"
    /\ Len(errCh) > 0
    /\ errCh' = Tail(errCh)
    /\ err' = Head(errCh)
    /\ mpc' = "closeDone"
    /\ UNCHANGED <<cfgVars, dataChs, dataClosed, errClosed, done, wg,
                   parserVars, row, i, in, inRow, defaultInRows,
                   deadChannels, activeChannels, output, histVars, calc>>

\* the output row (lines 218-224)
OutRowPanics == \E k \in 1..Len(outCols) : outCols[k] >= Len(inRow)
\* a plausible slip: the output spec ignored
OutRow_Unselected == inRow

OutRow ==
    IF Len(outCols) = 0 THEN inRow
    ELSE [k \in 1..Len(outCols) |-> inRow[outCols[k] + 1]]

\* a plausible slip: the error of splitIntoFloats dropped
SplitFails_Never(items) == FALSE

\* splitIntoFloats(items)
SplitFails(items) == \E k \in 1..Len(items) : ~CanParseFloat(items[k])
splitIntoFloats(items) ==
    [k \in 1..Len(items) |-> Float(ParseFloat(items[k]))]

\* the computeAction parseComputeSpec stores for a name, applied to items
applyAction(name, items) ==
    CASE name = "mean" -> mean(items)
      [] name = "var" -> variance(items)
      [] name = "max" -> max(items)
      [] name = "min" -> min(items)
      [] name = "median" -> median(items)

\* fmt.Sprintf("%15.15f", x): the text of the value in that format
Sprintf(x) == <<"%15.15f", x>>

\* a plausible slip: the fields of the row written in statistics mode too
RowLine_RawFields(outRow) == outRow

\* the line printRow writes for outRow: its fields, which strings.Join
\* separates by outSep; in statistics mode one field per action, the
\* formatted value of the action applied to all the floats of the row
RowLine(outRow) ==
    IF Len(actions) > 0
      THEN [k \in 1..Len(actions) |->
               Sprintf(applyAction(actions[k], splitIntoFloats(outRow)))]
      ELSE outRow

\* lines 217-228 and the step to the next row: assemble outRow, printRow
EmitRow ==
    /\ mpc = "print"
    /\ IF OutRowPanics
         THEN /\ mpc' = "panic"
              /\ UNCHANGED <<row, in, output, err, merged>>
         ELSE IF Len(actions) > 0 /\ SplitFails(OutRow)
         THEN \* printRow returns the error of splitIntoFloats
              /\ mpc' = "closeDone"
              /\ err' = FloatErr
              /\ UNCHANGED <<row, in, output, merged>>
         ELSE /\ output' = Append(output, RowLine(OutRow))
              /\ merged' = Append(merged, inRow)
              /\ row' = row + 1
              /\ in' = 0
              /\ mpc' = "select"
              /\ UNCHANGED err
    /\ UNCHANGED <<cfgVars, chanVars, parserVars, i, inRow, defaultInRows,
                   deadChannels, activeChannels, sentLines, sentRows, calc>>

(***************************************************************************)
(* parseData after processData has returned (lines 165-168)                *)
(***************************************************************************)
\* close(done)
CloseDone ==
    /\ mpc = "closeDone"
    /\ done' = TRUE
    /\ mpc' = "wait"
    /\ UNCHANGED <<cfgVars, dataChs, dataClosed, errCh, errClosed, wg,
                   parserVars, row, i, in, inRow, defaultInRows,
                   deadChannels, activeChannels, output, err, histVars, calc>>

\* a plausible slip: no wait for the fileParsers
WaitReturns_NoWait == TRUE

\* wg.Wait() returns once every fileParser has called wg.Done()
WaitReturns == wg = 0

\* wg.Wait(), the deferred close(errCh), return err
Wait ==
    /\ mpc = "wait"
    /\ WaitReturns
    /\ errClosed' = TRUE
    /\ mpc' = "returned"
    /\ UNCHANGED <<cfgVars, dataChs, dataClosed, errCh, done, wg,
                   parserVars, row, i, in, inRow, defaultInRows,
                   deadChannels, activeChannels, output, err, histVars, calc>>

Next ==
    \/ \E f \in FileIds : Open(f)
    \/ \E f \in FileIds : Scan(f)
    \/ \E f \in FileIds : Send(f)
    \/ \E f \in FileIds : Cancel(f)
    \/ \E f \in FileIds : CloseData(f)
    \/ \E f \in FileIds : WgDone(f)
    \/ RecvData
    \/ RecvErr
    \/ EmitRow
    \/ CloseDone
    \/ Wait

Spec == Init /\ [][Next]_vars

\* the Go scheduler runs every goroutine that can take a step: the
\* fileParsers and the goroutine of parseData
fileParser(f) ==
    /\ f \in FileIds
    /\ (Open(f) \/ Scan(f) \/ Send(f) \/ Cancel(f) \/ CloseData(f)
          \/ WgDone(f))

FairSpec ==
    /\ Spec
    /\ \A f \in 1..MaxFiles : WF_vars(fileParser(f))
    /\ WF_vars(RecvData \/ RecvErr \/ EmitRow \/ CloseDone \/ Wait)

(***************************************************************************)
(* SpecRowFilter: rowRangeSlice.contains and rowRangeSlice.maxEntry        *)
(* applied to the row filters parseRowSpec can build (0 <= b <= e, in any  *)
(* order) and, for contains, to those sorted by begin as getRowSpec        *)
(* leaves them.                                                            *)
(***************************************************************************)
RowRanges ==
    {r \in [b : 0..MaxRowIdx, e : 0..MaxRowIdx] : r.b <= r.e}
RowRangeSlices == SeqsUpTo(RowRanges, MaxRanges)

\* no run of parseData
NoRun ==
    /\ fileNames = <<>> /\ inCols = <<>> /\ outCols = <<>>
    /\ rowRanges = <<>> /\ actions = <<>>
    /\ dataChs = <<>> /\ dataClosed = <<>> /\ errCh = <<>>
    /\ errClosed = FALSE /\ done = FALSE /\ wg = 0
    /\ fpc = <<>> /\ count = <<>> /\ frow = <<>> /\ ferr = <<>>
    /\ fexit = <<>>
    /\ mpc = "none" /\ row = 0 /\ i = 1 /\ in = 0 /\ inRow = <<>>
    /\ defaultInRows = <<>> /\ deadChannels = <<>> /\ activeChannels = 0
    /\ output = <<>> /\ err = NoErr
    /\ sentLines = <<>> /\ sentRows = <<>> /\ merged = <<>>

runVars == <<cfgVars, chanVars, parserVars, procVars, histVars>>

InitRowFilter ==
    /\ NoRun
    /\ \E rr \in RowRangeSlices, v \in 0..(MaxRowIdx + 1) :
         calc = [op |-> "input", rr |-> rr, v |-> v, found |-> FALSE,
                 max |-> 0]

\* rr.contains(v), rr sorted
ApplyContains ==
    /\ calc.op = "input"
    /\ SortedByBegin(calc.rr)
    /\ calc' = [calc EXCEPT !.op = "contains",
                            !.found = contains(calc.rr, calc.v)]
    /\ UNCHANGED runVars

\* rr.maxEntry()
ApplyMaxEntry ==
    /\ calc.op = "input"
    /\ calc' = [calc EXCEPT !.op = "maxEntry", !.max = maxEntry(calc.rr)]
    /\ UNCHANGED runVars

NextRowFilter == ApplyContains \/ ApplyMaxEntry

SpecRowFilter == InitRowFilter /\ [][NextRowFilter]_vars

(***************************************************************************)
(* The spec strings of the command line (-i, -o).  A string is the         *)
(* sequence of its characters.                                             *)
(***************************************************************************)
DigitChars == <<"0", "1", "2", "3", "4", "5", "6", "7", "8", "9">>
IsDigit(c) == \E n \in 1..10 : DigitChars[n] = c
DigitVal(c) == (CHOOSE n \in 1..10 : DigitChars[n] = c) - 1

\* strings.Split(s, sep) for a one-character sep: the pieces between the
\* separators, one (empty) piece for the empty string
RECURSIVE Split(_, _)
Split(s, sep) ==
    IF \A k \in 1..Len(s) : s[k] # sep THEN <<s>>
    ELSE LET k == CHOOSE j \in 1..Len(s) :
                      s[j] = sep /\ \A h \in 1..(j - 1) : s[h] # sep
         IN  <<SubSeq(s, 1, k - 1)>> \o Split(SubSeq(s, k + 1, Len(s)), sep)

\* strings.TrimSpace(s)
RECURSIVE TrimSpace(_)
TrimSpace(s) ==
    IF Len(s) = 0 THEN s
    ELSE IF s[1] = " " THEN TrimSpace(Tail(s))
    ELSE IF s[Len(s)] = " " THEN TrimSpace(SubSeq(s, 1, Len(s) - 1))
    ELSE s

\* strconv.Atoi(s) of a string without a sign: does it succeed, its value
AtoiOk(s) == Len(s) > 0 /\ \A k \in 1..Len(s) : IsDigit(s[k])
RECURSIVE Atoi(_)
Atoi(s) ==
    IF Len(s) = 0 THEN 0
    ELSE 10 * Atoi(SubSeq(s, 1, Len(s) - 1)) + DigitVal(s[Len(s)])

\* parseRange(input): err == nil, begin, end
RangeErr == [ok |-> FALSE, begin |-> 0, end |-> 0]
parseRange(input) ==
    LET rangeSpec == Split(input, "-") IN
    CASE Len(rangeSpec) = 1 ->
           IF AtoiOk(input)
             THEN [ok |-> TRUE, begin |-> Atoi(input), end |-> Atoi(input)]
             ELSE RangeErr
      [] Len(rangeSpec) = 2 ->
           IF AtoiOk(rangeSpec[1]) /\ AtoiOk(rangeSpec[2])
             THEN [ok |-> TRUE, begin |-> Atoi(rangeSpec[1]),
                   end |-> Atoi(rangeSpec[2])]
             ELSE RangeErr
      [] OTHER -> RangeErr

\* a plausible slip: the end of the range left out
makeIntRange_EndExcluded(begin, end) ==
    [k \in 1..(end - begin) |-> begin + k - 1]

\* makeIntRange(begin, end); make([]int, 0, end-begin+1) panics when the
\* capacity is negative
makeIntRangePanics(begin, end) == end - begin + 1 < 0
makeIntRange(begin, end) ==
    [k \in 1..(end - begin + 1) |-> begin + k - 1]

\* what a parser of a spec string gives: status "ok" with its result,
\* "error" (err != nil) or "panic"
Parsed(spec) == [status |-> "ok", spec |-> spec]
ParseErr == [status |-> "error", spec |-> <<>>]
ParsePanic == [status |-> "panic", spec |-> <<>>]

\* the loop over the column specifiers of one list from the k-th on, ps
\* the columns so far: lines 356-364 of parseInputSpec (which trims the
\* specifier) and lines 398-404 of parseOutputSpec (which does not)
RECURSIVE appendRanges(_, _, _, _)
appendRanges(colSpecs, k, ps, trim) ==
    IF k > Len(colSpecs) THEN Parsed(ps)
    ELSE LET c == IF trim THEN TrimSpace(colSpecs[k]) ELSE colSpecs[k]
             r == parseRange(c)
         IN  IF ~r.ok THEN ParseErr
             ELSE IF makeIntRangePanics(r.begin, r.end) THEN ParsePanic
             ELSE appendRanges(colSpecs, k + 1,
                               ps \o makeIntRange(r.begin, r.end), trim)

\* the loop of parseInputSpec over the file specs from the n-th on
RECURSIVE fileSpecsLoop(_, _, _)
fileSpecsLoop(fileSpecs, n, spec) ==
    IF n > Len(fileSpecs) THEN Parsed(spec)
    ELSE LET colSpecs == Split(fileSpecs[n], ",")
             r == appendRanges(colSpecs, 1, <<>>, TRUE)
         IN  IF Len(colSpecs) = 1 THEN ParseErr
             ELSE IF r.status # "ok" THEN r
             ELSE fileSpecsLoop(fileSpecs, n + 1, Append(spec, r.spec))

parseInputSpec(input) ==
    IF Len(input) = 0 THEN Parsed(<< <<>> >>)
    ELSE fileSpecsLoop(Split(input, "|"), 1, <<>>)

parseOutputSpec(input) == appendRanges(Split(input, ","), 1, <<>>, FALSE)

\* a plausible slip: no check of the order of begin and end
EndBeforeBegin_Never(r) == FALSE

\* parseRowSpec: end < begin
EndBeforeBegin(r) == r.end < r.begin

\* the loop of parseRowSpec over the row specifiers from the k-th on
RECURSIVE rowSpecsLoop(_, _, _)
rowSpecsLoop(rowSpecs, k, rr) ==
    IF k > Len(rowSpecs) THEN Parsed(rr)
    ELSE LET r == parseRange(TrimSpace(rowSpecs[k]))
         IN  IF ~r.ok THEN ParseErr
             ELSE IF EndBeforeBegin(r) THEN ParseErr
             ELSE rowSpecsLoop(rowSpecs, k + 1,
                               Append(rr, rowRange(r.begin, r.end)))

parseRowSpec(input) == rowSpecsLoop(Split(input, ","), 1, <<>>)

\* a plausible slip: the padding with the first specifier
PadSpecs_WithFirst(specs, numFiles) ==
    [k \in 1..numFiles |-> IF k <= Len(specs) THEN specs[k] ELSE specs[1]]

\* getInputSpec, lines 329-333: inCols padded with its last entry
PadSpecs(specs, numFiles) ==
    [k \in 1..numFiles |->
        IF k <= Len(specs) THEN specs[k] ELSE specs[Len(specs)]]

getInputSpec(input, numFiles) ==
    IF Len(input) = 0 THEN Parsed(<<>>)
    ELSE LET r == parseInputSpec(input) IN
         IF r.status # "ok" THEN r
         ELSE IF Len(r.spec) > numFiles THEN ParseErr
         ELSE Parsed(PadSpecs(r.spec, numFiles))

\* totalLen(spec)
RECURSIVE totalLen(_)
totalLen(spec) ==
    IF Len(spec) = 0 THEN 0
    ELSE totalLen(SubSeq(spec, 1, Len(spec) - 1)) + Len(spec[Len(spec)])

\* parseSpec.minMax(): the loop from the k-th value on
RECURSIVE minMaxLoop(_, _, _, _)
minMaxLoop(p, k, minVal, maxVal) ==
    IF k > Len(p) THEN [min |-> minVal, max |-> maxVal]
    ELSE IF p[k] > maxVal THEN minMaxLoop(p, k + 1, minVal, p[k])
    ELSE IF p[k] < minVal THEN minMaxLoop(p, k + 1, p[k], maxVal)
    ELSE minMaxLoop(p, k + 1, minVal, maxVal)
minMax(p) == minMaxLoop(p, 1, MaxInt64, -MaxInt64)

getOutputSpec(input, numCols) ==
    IF Len(input) = 0 THEN Parsed(<<>>)
    ELSE LET r == parseOutputSpec(input) IN
         IF r.status # "ok" THEN r
         ELSE IF minMax(r.spec).max > numCols \/ minMax(r.spec).min < 0
         THEN ParseErr
         ELSE r

(***************************************************************************)
(* SpecArgs: the start of main.  The spec strings of -i and -o are parsed  *)
(* by parseInputSpec/getInputSpec and parseOutputSpec/getOutputSpec; with  *)
(* the result of getInputSpec parseData starts its fileParsers, with the   *)
(* result of getOutputSpec processData assembles an output row.            *)
(***************************************************************************)
\* a column specifier as the user means it: a, or a-b
ColTokens ==
    {[kind |-> "one", a |-> a, b |-> a] : a \in 0..MaxCol} \cup
    {[kind |-> "range", a |-> a, b |-> b] : a \in 0..MaxCol, b \in 0..MaxCol}
\* spec strings as the user means them: the per-file lists of specifiers
ArgSources ==
    UNION {[1..n -> UNION {[1..m -> ColTokens] : m \in 1..MaxTokens}] :
              n \in 1..MaxSpecs}

\* the text the user writes for them
RECURSIVE FormatInt(_)
FormatInt(n) ==
    IF n < 10 THEN <<DigitChars[n + 1]>>
    ELSE FormatInt(n \div 10) \o <<DigitChars[(n % 10) + 1]>>
FormatToken(t) ==
    IF t.kind = "one" THEN FormatInt(t.a)
    ELSE FormatInt(t.a) \o <<"-">> \o FormatInt(t.b)
RECURSIVE Join(_, _)
Join(strs, sep) ==
    IF Len(strs) = 0 THEN <<>>
    ELSE IF Len(strs) = 1 THEN strs[1]
    ELSE strs[1] \o <<sep>> \o Join(Tail(strs), sep)
FormatList(tokens) ==
    Join([k \in 1..Len(tokens) |-> FormatToken(tokens[k])], ",")
FormatSpec(src) ==
    Join([n \in 1..Len(src) |-> FormatList(src[n])], "|")

\* any other text of the command line
RawChars == {"0", "2", ",", "-", "|", " ", "x"}
RawTexts == SeqsUpTo(RawChars, MaxRawLen)

\* the value of a flag: the text, and what the user meant when the text
\* was written from specifiers (src is empty otherwise)
ArgInputs ==
    {[src |-> src, text |-> FormatSpec(src)] : src \in ArgSources} \cup
    {[src |-> <<>>, text |-> t] : t \in RawTexts}

InitArgs ==
    /\ NoRun
    /\ \E arg \in ArgInputs :
         calc = [op |-> "input", src |-> arg.src, text |-> arg.text,
                 numFiles |-> 0, numCols |-> 0, status |-> "",
                 spec |-> <<>>, minVal |-> 0, maxVal |-> 0]

\* parseInputSpec(text)
ApplyParseInputSpec ==
    /\ calc.op = "input"
    /\ calc' = [calc EXCEPT !.op = "parseInputSpec",
                            !.status = parseInputSpec(calc.text).status,
                            !.spec = parseInputSpec(calc.text).spec]
    /\ UNCHANGED runVars

\* parseOutputSpec(text)
ApplyParseOutputSpec ==
    /\ calc.op = "input"
    /\ calc' = [calc EXCEPT !.op = "parseOutputSpec",
                            !.status = parseOutputSpec(calc.text).status,
                            !.spec = parseOutputSpec(calc.text).spec]
    /\ UNCHANGED runVars

\* parseRowSpec(text)
ApplyParseRowSpec ==
    /\ calc.op = "input"
    /\ calc' = [calc EXCEPT !.op = "parseRowSpec",
                            !.status = parseRowSpec(calc.text).status,
                            !.spec = parseRowSpec(calc.text).spec]
    /\ UNCHANGED runVars

\* main: inCols, err := getInputSpec(spec.input, numFileNames)
ApplyGetInputSpec ==
    /\ calc.op = "input"
    /\ \E n \in 1..(MaxSpecs + 1) :
         calc' = [calc EXCEPT !.op = "getInputSpec",
                              !.numFiles = n,
                              !.status = getInputSpec(calc.text, n).status,
                              !.spec = getInputSpec(calc.text, n).spec]
    /\ UNCHANGED runVars

\* parseData, the loop that starts the fileParsers: inCols[i] for every
\* file name panics when inCols is shorter than fileNames
StartFileParsers ==
    /\ calc.op = "getInputSpec"
    /\ calc.status = "ok"
    /\ calc' = [calc EXCEPT !.op = "parseData",
                            !.status = IF Len(calc.spec) < calc.numFiles
                                         THEN "panic" ELSE "ok"]
    /\ UNCHANGED runVars

\* main: outCols, err := getOutputSpec(spec.output, totNumCols)
ApplyGetOutputSpec ==
    /\ calc.op = "input"
    /\ \E n \in 0..(MaxCol + 1) :
         calc' = [calc EXCEPT !.op = "getOutputSpec",
                              !.numCols = n,
                              !.status = getOutputSpec(calc.text, n).status,
                              !.spec = getOutputSpec(calc.text, n).spec]
    /\ UNCHANGED runVars

\* processData, the assembly of the output row from a merged row of
\* totNumCols fields: inRow[c] panics for c >= len(inRow)
AssembleOutRow ==
    /\ calc.op = "getOutputSpec"
    /\ calc.status = "ok"
    /\ calc' = [calc EXCEPT !.op = "outRow",
                            !.status =
                                IF \E k \in 1..Len(calc.spec) :
                                       calc.spec[k] >= calc.numCols
                                  THEN "panic" ELSE "ok"]
    /\ UNCHANGED runVars

\* getOutputSpec: min, max := outCols.minMax() for the parsed output spec
ApplyMinMax ==
    /\ calc.op = "parseOutputSpec"
    /\ calc.status = "ok"
    /\ calc' = [calc EXCEPT !.op = "minMax",
                            !.minVal = minMax(calc.spec).min,
                            !.maxVal = minMax(calc.spec).max]
    /\ UNCHANGED runVars

NextArgs ==
    \/ ApplyMinMax
    \/ ApplyParseInputSpec
    \/ ApplyParseOutputSpec
    \/ ApplyParseRowSpec
    \/ ApplyGetInputSpec
    \/ StartFileParsers
    \/ ApplyGetOutputSpec
    \/ AssembleOutRow

SpecArgs == InitArgs /\ [][NextArgs]_vars

(***************************************************************************)
(* SpecRows: getRowSpec applied to a row spec string while the flag -r     *)
(* (the global spec.rows) holds the same or another string, then contains  *)
(* applied to the filter it returns.                                       *)
(***************************************************************************)
\* the orders sort.Sort may leave rr in: it sorts by Less (begin) and is not
\* stable, so ranges with equal begin come in any order
SortedOrders(rr) ==
    {[k \in 1..Len(rr) |-> rr[q[k]]] :
        q \in {q \in [1..Len(rr) -> 1..Len(rr)] :
                  /\ \A j, k \in 1..Len(rr) : j # k => q[j] # q[k]
                  /\ \A j, k \in 1..Len(rr) :
                        j < k => rr[q[j]].b <= rr[q[k]].b}}

\* sort.Sort(rowRanges), line 420
AfterSort(rr) == SortedOrders(rr)

\* getRowSpec(rows) while spec.rows holds flag: the values it may return;
\* line 417 parses spec.rows, not rows
getRowSpec(rows, flag) ==
    IF Len(rows) = 0 THEN {Parsed(<<>>)}
    ELSE LET r == parseRowSpec(flag) IN
         IF r.status # "ok" THEN {r}
         ELSE {Parsed(rr) : rr \in AfterSort(r.spec)}

\* row specs as the caller means them: one or more ranges a or a-b, in any
\* order, and what one writes for them
RowSources == UNION {[1..m -> ColTokens] : m \in 1..MaxTokens}
\* other values of the flag -r: not given, one row, a malformed range
RowFlags == {<<>>, <<"2">>, <<"2", "-", "0">>}

InitRows ==
    /\ NoRun
    /\ \E src \in RowSources :
         \E flag \in {FormatList(src)} \cup RowFlags :
            calc = [op |-> "input", src |-> src, rows |-> FormatList(src),
                    flag |-> flag, status |-> "", spec |-> <<>>, v |-> 0,
                    found |-> FALSE]

\* rowRanges, err := getRowSpec(rows)
ApplyGetRowSpec ==
    /\ calc.op = "input"
    /\ \E r \in getRowSpec(calc.rows, calc.flag) :
         calc' = [calc EXCEPT !.op = "getRowSpec", !.status = r.status,
                              !.spec = r.spec]
    /\ UNCHANGED runVars

\* rowRanges.contains(v), as fileParser calls it for a line count
ApplyRowFilter ==
    /\ calc.op = "getRowSpec"
    /\ calc.status = "ok"
    /\ \E v \in 0..(MaxCol + 1) :
         calc' = [calc EXCEPT !.op = "contains", !.v = v,
                              !.found = contains(calc.spec, v)]
    /\ UNCHANGED runVars

NextRows == ApplyGetRowSpec \/ ApplyRowFilter

SpecRows == InitRows /\ [][NextRows]_vars

(***************************************************************************)
(* SpecCompute: getComputeSpecs applied to the text of the flag -c, then   *)
(* printRow applied to rows with the actions it returned; calc.stdout is   *)
(* what has been written to standard output, line by line.                 *)
(***************************************************************************)
\* the action names parseComputeSpec knows, as texts and as the names of
\* the model's actions
ActionName(val) ==
    CASE val = <<"m", "e", "a", "n">> -> "mean"
      [] val = <<"v", "a", "r">> -> "var"
      [] val = <<"s", "t", "d">> -> "std"
      [] val = <<"m", "a", "x">> -> "max"
      [] val = <<"m", "i", "n">> -> "min"
      [] val = <<"m", "e", "d", "i", "a", "n">> -> "median"
      [] OTHER -> ""

\* a line of standard output and the function that wrote it
StdoutLine(by, line) == [by |-> by, line |-> line]

\* the loop of parseComputeSpec from the k-th item on: specs so far and
\* the lines fmt.Println(val) has written (line 461)
RECURSIVE computeSpecLoop(_, _, _, _)
computeSpecLoop(items, k, specs, printed) ==
    IF k > Len(items)
      THEN [status |-> "ok", spec |-> specs, printed |-> printed]
    ELSE LET val == TrimSpace(items[k])
             lines == Append(printed, StdoutLine("parseComputeSpec", val))
         IN  IF ActionName(val) = ""
               THEN [status |-> "error", spec |-> <<>>, printed |-> lines]
               ELSE computeSpecLoop(items, k + 1,
                                    Append(specs, ActionName(val)), lines)

parseComputeSpec(text) == computeSpecLoop(Split(text, ","), 1, <<>>, <<>>)

getComputeSpecs(text) ==
    IF Len(text) = 0 THEN [status |-> "ok", spec |-> <<>>, printed |-> <<>>]
    ELSE parseComputeSpec(text)

\* the items one writes in the flag -c: action names, one with blanks
\* around it, one unknown name; and the texts of up to MaxTokens items
ComputeItems ==
    {<<"m", "e", "a", "n">>, <<"v", "a", "r">>, <<"m", "a", "x">>,
     <<"m", "i", "n">>, <<"m", "e", "d", "i", "a", "n">>,
     <<" ", "m", "a", "x", " ">>, <<"x">>}
ComputeTexts ==
    {<<>>} \cup
    {Join(l, ",") : l \in UNION {[1..m -> ComputeItems] : m \in 1..MaxTokens}}

\* the output rows printRow is given
PrintedRows == {<<"1">>, <<"2", "1">>}

InitCompute ==
    /\ NoRun
    /\ \E t \in ComputeTexts :
         calc = [op |-> "input", text |-> t, status |-> "", stdout |-> <<>>]

\* main: computeActions, err := getComputeSpecs(spec.compute)
ApplyGetComputeSpecs ==
    /\ calc.op = "input"
    /\ LET r == getComputeSpecs(calc.text) IN
         /\ calc' = [calc EXCEPT !.op = "getComputeSpecs",
                                 !.status = r.status,
                                 !.stdout = calc.stdout \o r.printed]
         /\ actions' = r.spec
    /\ UNCHANGED <<fileNames, inCols, outCols, rowRanges, chanVars,
                   parserVars, mpc, row, i, in, inRow, defaultInRows,
                   deadChannels, activeChannels, output, err, histVars>>

\* printRow(output, outRow, outSep, actions) for the next output row
ApplyPrintRow ==
    /\ calc.op \in {"getComputeSpecs", "printRow"}
    /\ calc.status = "ok"
    /\ Len(output) < MaxLines
    /\ \E outRow \in PrintedRows :
         /\ calc' = [calc EXCEPT !.op = "printRow",
                        !.stdout = Append(@, StdoutLine("printRow",
                                                        RowLine(outRow)))]
         /\ output' = Append(output, RowLine(outRow))
    /\ UNCHANGED <<cfgVars, chanVars, parserVars, mpc, row, i, in, inRow,
                   defaultInRows, deadChannels, activeChannels, err,
                   histVars>>

NextCompute == ApplyGetComputeSpecs \/ ApplyPrintRow

SpecCompute == InitCompute /\ [][NextCompute]_vars

(***************************************************************************)
(* SpecStats: the values of a row are fed one by one to updateMedian, as   *)
(* median does; variance and median are applied to the values fed so far.  *)
(***************************************************************************)
\* the values a field of a row may have
StatVals == {-1, 0, 2, 3}

InitStats ==
    /\ NoRun
    /\ calc = [op |-> "newMedData", fs |-> <<>>, m |-> newMedData,
               variance |-> Float(0), median |-> Float(0)]

\* updateMedian(m, f) for the next value f of the row
UpdateMedian ==
    /\ calc.op \in {"newMedData", "updateMedian"}
    /\ Len(calc.fs) < MaxVec
    /\ ~calc.m.panic
    /\ \E f \in StatVals :
         calc' = [calc EXCEPT !.op = "updateMedian",
                              !.fs = Append(@, Float(f)),
                              !.m = updateMedian(@, Float(f))]
    /\ UNCHANGED runVars

\* variance(fs)
ApplyVariance ==
    /\ calc.op \in {"newMedData", "updateMedian"}
    /\ calc' = [calc EXCEPT !.op = "variance",
                            !.variance = variance(calc.fs)]
    /\ UNCHANGED runVars

\* median(fs)
ApplyMedian ==
    /\ calc.op \in {"newMedData", "updateMedian"}
    /\ calc' = [calc EXCEPT !.op = "median", !.median = median(calc.fs)]
    /\ UNCHANGED runVars

NextStats == UpdateMedian \/ ApplyVariance \/ ApplyMedian

SpecStats == InitStats /\ [][NextStats]_vars

(***************************************************************************)
(* What the claims speak of, in terms of the inputs.                       *)
(***************************************************************************)
\* v lies in some range of rr
InSomeRange(rr, v) == \E k \in 1..Len(rr) : rr[k].b <= v /\ v <= rr[k].e

\* the row filter wants line v: the empty filter wants every line
Wanted(v) == Len(rowRanges) = 0 \/ InSomeRange(rowRanges, v)

\* the 0-based indices of the lines of file f, in file order
LineIdxs(f) == [k \in 1..Len(fileNames[f].lines) |-> k - 1]

\* those the row filter wants
WantedIdxs(f) == SelectSeq(LineIdxs(f), Wanted)

\* file f opens, scans without error and has every requested column on
\* every wanted line
CleanSource(f) ==
    /\ fileNames[f].exists
    /\ ~fileNames[f].scanErr
    /\ \A k \in 1..Len(WantedIdxs(f)) :
         MissingCols(inCols[f],
             FieldsFunc(fileNames[f].lines[WantedIdxs(f)[k] + 1])) = {}
CleanSources == \A f \in FileIds : CleanSource(f)

\* the number of rows a clean source yields, the smallest and the largest
Yield(f) == Len(WantedIdxs(f))
MinYield == CHOOSE n \in {Yield(f) : f \in FileIds} :
                \A g \in FileIds : n <= Yield(g)
MaxYield == CHOOSE n \in {Yield(f) : f \in FileIds} :
                \A g \in FileIds : n >= Yield(g)

\* some fileParser has sent an error on errCh
ErrSignaled == \E f \in FileIds : ferr[f] # NoErr

IsPrefix(s, t) == Len(s) <= Len(t) /\ \A k \in 1..Len(s) : s[k] = t[k]

\* the concatenation of the r-th rows the sources sent, in source order
RECURSIVE ConcatSent(_, _)
ConcatSent(r, n) ==
    IF n = 0 THEN <<>> ELSE ConcatSent(r, n - 1) \o sentRows[n][r]

\* the concatenation, in source order, of the rows built from the r-th
\* wanted line of every source
RECURSIVE ConcatWanted(_, _)
ConcatWanted(r, n) ==
    IF n = 0 THEN <<>>
    ELSE ConcatWanted(r, n - 1) \o
         BuildRow(inCols[n], fileNames[n].lines[WantedIdxs(n)[r] + 1])

\* the rows processData has taken from the data channel of source f
Consumed(f) == Len(sentRows[f]) - Len(dataChs[f])

(***************************************************************************)
(* C1 (refuted by the code): in every run in which some fileParser has     *)
(* sent an error on errCh, parseData returns a non-nil error.              *)
(***************************************************************************)
C1_ErrorFailsRun ==
    (mpc = "returned" /\ ErrSignaled) => err # NoErr

(***************************************************************************)
(* C2 (refuted by the code): once a fileParser has sent an error on errCh, *)
(* processData writes no further row.                                      *)
(***************************************************************************)
C2_NoRowAfterError ==
    [][ErrSignaled => output' = output]_vars

(***************************************************************************)
(* C3 as claimed (refuted): with clean sources that yield different        *)
(* numbers of rows the run returns nil with as many rows written as the    *)
(* shortest source yields.                                                 *)
(***************************************************************************)
C3_EndsAtShortest ==
    (mpc = "returned" /\ CleanSources /\ MinYield # MaxYield)
        => (err = NoErr /\ Len(output) = MinYield)

(***************************************************************************)
(* C3 as amended: with clean sources that yield different numbers of rows  *)
(* the run does not end where the first source is exhausted.  It returns   *)
(* nil only once every source is exhausted, with as many rows written as   *)
(* the longest source yields, so rows are written for the trailing rows of *)
(* a longer source.  With no compute actions a run that returns, returns   *)
(* nil; with compute actions the only other result is the float error.     *)
(***************************************************************************)
C3_EndsAtLongest ==
    (mpc = "returned" /\ CleanSources /\ MinYield # MaxYield)
        => /\ err = NoErr =>
                /\ Len(output) = MaxYield
                /\ Len(output) > MinYield
                /\ \A f \in FileIds : deadChannels[f]
           /\ Len(actions) = 0 => err = NoErr
           /\ err \in {NoErr, FloatErr}

C3_Witness ==
    /\ mpc = "returned" /\ CleanSources /\ Len(actions) = 0
    /\ NumFiles = 2 /\ MinYield = 1 /\ MaxYield = 2
    /\ Len(output) = 2

(***************************************************************************)
(* C4: when all sources are clean and yield the same number n of rows and  *)
(* no float conversion fails, never more than n rows are written (none in  *)
(* the iteration that finds the channels closed), and parseData returns    *)
(* nil with exactly n rows written.                                        *)
(***************************************************************************)
\* no row of the run fails in splitIntoFloats: no compute actions, or every
\* field of every wanted line is a float
NoFloatErr ==
    \/ Len(actions) = 0
    \/ \A f \in FileIds : \A k \in 1..Len(WantedIdxs(f)) :
         ~SplitFails(BuildRow(inCols[f],
                              fileNames[f].lines[WantedIdxs(f)[k] + 1]))

C4_EqualSources ==
    (CleanSources /\ MinYield = MaxYield /\ NoFloatErr)
        => /\ Len(output) <= MaxYield
           /\ mpc = "returned" => (Len(output) = MaxYield /\ err = NoErr)

C4_Witness ==
    /\ mpc = "returned" /\ CleanSources /\ NoFloatErr
    /\ NumFiles = 2 /\ MinYield = 2 /\ MaxYield = 2
    /\ Len(output) = 2 /\ err = NoErr

(***************************************************************************)
(* C5: lockstep merge.  The r-th merged row for which every source sent an *)
(* r-th row is the concatenation of those rows in source order, and while  *)
(* processData merges, it has taken from every live source exactly the     *)
(* rows before the current one, and the current one from the sources       *)
(* before channel i; a data channel holds, in the order sent, the rows not *)
(* yet taken; with no output spec and no compute actions the written rows  *)
(* are the merged rows.                                                    *)
(***************************************************************************)
C5_Lockstep ==
    /\ \A r \in 1..Len(merged) :
         (\A f \in FileIds : r <= Len(sentRows[f]))
             => merged[r] = ConcatSent(r, NumFiles)
    /\ mpc \in {"select", "print"} =>
         /\ Len(merged) = row
         /\ \A f \in FileIds :
              /\ ~deadChannels[f] =>
                   Consumed(f) = row + (IF mpc = "print" \/ f < i THEN 1 ELSE 0)
              /\ Consumed(f) <= row + 1
    /\ \A f \in FileIds :
         dataChs[f] = SubSeq(sentRows[f], Consumed(f) + 1, Len(sentRows[f]))
    /\ (Len(actions) = 0 /\ Len(outCols) = 0) => output = merged

C5_Witness ==
    /\ NumFiles = 2 /\ Len(merged) = 2
    /\ Len(sentRows[1]) = 2 /\ Len(sentRows[2]) = 2
    /\ sentRows[1][1] # sentRows[2][1]
    /\ sentRows[1][1] # sentRows[1][2]

(***************************************************************************)
(* C6: every run terminates.  With the scheduler fair to every goroutine,  *)
(* parseData returns, which is after wg.Wait and so after every fileParser *)
(* has exited (or the process ends in a panic of processData).             *)
(***************************************************************************)
AllExited == \A f \in FileIds : fpc[f] = "exited"
Finished == (mpc = "returned" /\ AllExited) \/ mpc = "panic"

C6_Terminates == <>Finished

\* a fileParser that was blocked on its full data channel has left by the
\* done case, and parseData has returned
C6_Witness ==
    /\ mpc = "returned"
    /\ \E f \in FileIds : fexit[f] = "done" /\ Len(dataChs[f]) = ChanCap

(***************************************************************************)
(* C7: when parseData returns, on success and on error, every fileParser   *)
(* has exited: it has closed its data channel and called wg.Done.          *)
(***************************************************************************)
C7_ReturnsAfterJoin ==
    mpc = "returned" =>
        \A f \in FileIds : fpc[f] = "exited" /\ dataClosed[f]

C7_Witness ==
    /\ mpc = "returned" /\ NumFiles = 2
    /\ err # NoErr
    /\ \E f \in FileIds : fexit[f] = "done"
    /\ \E f \in FileIds : fexit[f] = "error"

(***************************************************************************)
(* C8: with a non-empty row filter a fileParser sends rows for wanted      *)
(* lines only, in file order and without a gap; one that leaves the scan   *)
(* loop at the end of the file or by the early exit past maxEntry has sent *)
(* every wanted line, and each row is the one built from its line.  A run  *)
(* over clean sources with equally many wanted lines returns with one      *)
(* merged row per wanted line, built from that line of every source.       *)
(***************************************************************************)
C8_FilteredRows ==
    Len(rowRanges) > 0 =>
        /\ \A f \in FileIds :
             /\ IsPrefix(sentLines[f], WantedIdxs(f))
             /\ fexit[f] \in {"eof", "break"} => sentLines[f] = WantedIdxs(f)
             /\ Len(sentRows[f]) = Len(sentLines[f])
             /\ \A k \in 1..Len(sentLines[f]) :
                  sentRows[f][k] =
                      BuildRow(inCols[f],
                               fileNames[f].lines[sentLines[f][k] + 1])
        /\ (mpc = "returned" /\ CleanSources /\ MinYield = MaxYield
               /\ NoFloatErr)
             => /\ Len(merged) = MinYield
                /\ \A r \in 1..Len(merged) :
                     merged[r] = ConcatWanted(r, NumFiles)

\* the early exit was taken after the one wanted line was sent
C8_Witness ==
    /\ Len(rowRanges) > 0
    /\ \E f \in FileIds :
         /\ fexit[f] = "break"
         /\ Len(fileNames[f].lines) = 2
         /\ sentLines[f] = <<0>>

(***************************************************************************)
(* C9: for a rowRangeSlice sorted by begin (ranges may overlap),           *)
(* contains(v) is true iff some range has begin <= v <= end; for the empty *)
(* filter it is true for every v.                                          *)
(***************************************************************************)
C9_Contains ==
    calc.op = "contains" =>
        (calc.found <=> (Len(calc.rr) = 0 \/ InSomeRange(calc.rr, calc.v)))

\* v lies in a later range only, which overlaps the first
C9_Witness ==
    /\ calc.op = "contains" /\ calc.found
    /\ Len(calc.rr) = 3
    /\ calc.v > calc.rr[1].e
    /\ calc.rr[2].b <= calc.rr[1].e

(***************************************************************************)
(* C10: maxEntry of a non-empty rowRangeSlice is the largest end of its    *)
(* ranges, in whatever order they are; of the empty one it is the sentinel *)
(* that no row index exceeds.                                              *)
(***************************************************************************)
C10_MaxEntry ==
    calc.op = "maxEntry" =>
        IF Len(calc.rr) = 0
          THEN calc.max = MaxInt64 /\ calc.max >= calc.v
          ELSE /\ \E k \in 1..Len(calc.rr) : calc.max = calc.rr[k].e
               /\ \A k \in 1..Len(calc.rr) : calc.max >= calc.rr[k].e

\* the largest end is not the end of the last range
C10_Witness ==
    /\ calc.op = "maxEntry"
    /\ Len(calc.rr) = 3
    /\ calc.max = calc.rr[1].e
    /\ calc.max > calc.rr[3].e
    /\ calc.rr[1].b > calc.rr[2].b

(***************************************************************************)
(* What the claims about the spec strings speak of.                        *)
(***************************************************************************)
\* the inclusive interval a, a+1, ..., b
RECURSIVE Interval(_, _)
Interval(a, b) == IF a > b THEN <<>> ELSE <<a>> \o Interval(a + 1, b)

\* the columns a list of specifiers denotes, in the order given
RECURSIVE Expansion(_)
Expansion(tokens) ==
    IF Len(tokens) = 0 THEN <<>>
    ELSE Interval(tokens[1].a, tokens[1].b) \o Expansion(Tail(tokens))

\* every specifier a-b of src has a <= b
Ascending(src) ==
    \A n \in 1..Len(src) : \A k \in 1..Len(src[n]) : src[n][k].a <= src[n][k].b

\* the text of calc was written from specifiers
FromSpecifiers == Len(calc.src) > 0

C12_SingleColumnAccepted ==
    (/\ calc.op = "getInputSpec"
     /\ FromSpecifiers
     /\ Len(calc.src) <= calc.numFiles
     /\ \E n \in 1..Len(calc.src) :
            Len(calc.src[n]) = 1 /\ calc.src[n][1].kind = "one"
     /\ Ascending(calc.src))
        => /\ calc.status = "ok"
           /\ Len(calc.spec) = calc.numFiles
           /\ \A n \in 1..Len(calc.src) :
                  calc.spec[n] = Expansion(calc.src[n])
           /\ calc.text = <<"0", ",", "1", "|", "2">> /\ calc.numFiles = 3
                  => totalLen(calc.spec) = 4

(***************************************************************************)
(* C13: when getInputSpec succeeds for a non-empty input spec with k       *)
(* per-file specifiers, k <= numFiles and it returns exactly numFiles      *)
(* column specs: the first k as parseInputSpec gives them (the expansions  *)
(* of the specifiers given), and every later one equal to the k-th.        *)
(***************************************************************************)
C13_PaddedWithLast ==
    (calc.op = "getInputSpec" /\ calc.status = "ok" /\ Len(calc.text) > 0)
        => LET given == parseInputSpec(calc.text).spec
               k == Len(given)
           IN  /\ k = Len(Split(calc.text, "|"))
               /\ 1 <= k /\ k <= calc.numFiles
               /\ Len(calc.spec) = calc.numFiles
               /\ \A n \in 1..k : calc.spec[n] = given[n]
               /\ \A n \in (k + 1)..calc.numFiles : calc.spec[n] = given[k]
               /\ FromSpecifiers =>
                    /\ k = Len(calc.src)
                    /\ \A n \in 1..k : calc.spec[n] = Expansion(calc.src[n])

\* two specifiers for three files, the last one differs from the first
C13_Witness ==
    /\ calc.op = "getInputSpec" /\ calc.status = "ok"
    /\ calc.numFiles = 3 /\ Len(calc.src) = 2
    /\ calc.spec[1] # calc.spec[2]
    /\ calc.spec[3] = calc.spec[2]
    /\ Len(calc.spec[3]) = 2

(***************************************************************************)
(* C14 (refuted by the code): with no input spec (the empty string) the    *)
(* run proceeds with an empty column spec for every one of the numFiles    *)
(* files.                                                                  *)
(***************************************************************************)
C14_EmptySpecRuns ==
    Len(calc.text) = 0 =>
        /\ calc.op = "getInputSpec" =>
             /\ calc.status = "ok"
             /\ calc.spec = [n \in 1..calc.numFiles |-> <<>>]
        /\ calc.op = "parseData" => calc.status = "ok"

(***************************************************************************)
(* C15 (refuted by the code): getOutputSpec returns an error for every     *)
(* output spec with an index outside [0, numCols), and an accepted output  *)
(* spec never makes processData index the merged row out of range.         *)
(***************************************************************************)
C15_OutOfRangeRejected ==
    /\ (calc.op = "getOutputSpec" /\ calc.status = "ok") =>
         \A k \in 1..Len(calc.spec) :
             0 <= calc.spec[k] /\ calc.spec[k] < calc.numCols
    /\ calc.op = "outRow" => calc.status # "panic"

(***************************************************************************)
(* What the claims about the statistics speak of.                          *)
(***************************************************************************)
\* the values of fs in ascending order: the k-th is the value with fewer
\* than k values below it and at least k values not above it
CountBelow(fs, x) == Cardinality({k \in 1..Len(fs) : FLess(fs[k], x)})
CountNotAbove(fs, x) == Cardinality({k \in 1..Len(fs) : ~FLess(x, fs[k])})
SortedAt(fs, k) ==
    fs[CHOOSE j \in 1..Len(fs) :
           CountBelow(fs, fs[j]) < k /\ k <= CountNotAbove(fs, fs[j])]

\* the median of the sorted values
SortedMedian(fs) ==
    IF Len(fs) % 2 = 1 THEN SortedAt(fs, (Len(fs) + 1) \div 2)
    ELSE FDivInt(FAdd(SortedAt(fs, Len(fs) \div 2),
                      SortedAt(fs, Len(fs) \div 2 + 1)), 2)

\* the two-pass sample variance
RECURSIVE SumSquares(_, _, _)
SumSquares(fs, k, mu) ==
    IF k > Len(fs) THEN Float(0)
    ELSE FAdd(FMul(FSub(fs[k], mu), FSub(fs[k], mu)),
              SumSquares(fs, k + 1, mu))
TwoPassVariance(fs) ==
    FDivInt(SumSquares(fs, 1, mean(fs)), Len(fs) - 1)

(***************************************************************************)
(* C16: after every call of updateMedian, from the empty state on and for  *)
(* any sequence of values, the heaps differ in length by at most 1 and     *)
(* hold the values inserted; the log.Panic at its end is not reached.      *)
(***************************************************************************)
C16_HeapsBalanced ==
    calc.op = "updateMedian" =>
        /\ Abs(Len(calc.m.smaller) - Len(calc.m.larger)) <= 1
        /\ Len(calc.m.smaller) + Len(calc.m.larger) = Len(calc.fs)
        /\ ~calc.m.panic

\* the fix up has moved a value: four values below the running median
C16_Witness ==
    /\ calc.op = "updateMedian"
    /\ calc.fs = <<Float(3), Float(2), Float(0), Float(-1), Float(-1)>>
    /\ Len(calc.m.smaller) = 3 /\ Len(calc.m.larger) = 2

(***************************************************************************)
(* C17: for every non-empty row of values, in whatever order they are fed  *)
(* through updateMedian, median gives the median of the sorted values: the *)
(* middle one for an odd number of values, the average of the two middle   *)
(* ones for an even number.                                                *)
(***************************************************************************)
C17_MedianOfSorted ==
    /\ (calc.op = "updateMedian" /\ Len(calc.fs) > 0) =>
          calc.m.val = SortedMedian(calc.fs)
    /\ (calc.op = "median" /\ Len(calc.fs) > 0) =>
          calc.median = SortedMedian(calc.fs)

\* an even number of values fed in neither ascending nor descending order,
\* the median between two of them
C17_Witness ==
    /\ calc.op = "median"
    /\ calc.fs = <<Float(2), Float(-1), Float(3), Float(0)>>
    /\ calc.median = Frac(1, 1)

(***************************************************************************)
(* C18: for every row of n > 1 values the variance of the one-pass         *)
(* recurrence is the two-pass sample variance sum((x-mean)^2)/(n-1); for   *)
(* n <= 1 it is 0.                                                         *)
(***************************************************************************)
C18_VarianceTwoPass ==
    calc.op = "variance" =>
        IF Len(calc.fs) > 1
          THEN calc.variance = TwoPassVariance(calc.fs)
          ELSE calc.variance = Float(0)

\* -1, 0, 2, 3: mean 1, variance 10/3
C18_Witness ==
    /\ calc.op = "variance"
    /\ calc.fs = <<Float(-1), Float(0), Float(2), Float(3)>>
    /\ mean(calc.fs) = Float(1)
    /\ calc.variance = Frac(10, 3)

(***************************************************************************)
(* What the claims about the written lines speak of.                       *)
(***************************************************************************)
\* the output row assembled from a merged row
OutRowOf(mergedRow) ==
    IF Len(outCols) = 0 THEN mergedRow
    ELSE [k \in 1..Len(outCols) |-> mergedRow[outCols[k] + 1]]

\* the numeric row: the values of the fields of a row whose fields are
\* all numbers
Numeric(fields) == [k \in 1..Len(fields) |-> Float(ParseFloat(fields[k]))]

\* x is the value of the action called name over the whole of items
IsValueOf(name, x, items) ==
    CASE name = "max" ->
           /\ \E k \in 1..Len(items) : x = items[k]
           /\ \A k \in 1..Len(items) : ~FLess(x, items[k])
      [] name = "mean" ->
           FMul(x, Float(Len(items))) = sumLoop(items, 1, Float(0))
      [] OTHER -> x = applyAction(name, items)

\* some field of the row is not a number
HasNonNumber(fields) == \E k \in 1..Len(fields) : ~CanParseFloat(fields[k])

(***************************************************************************)
(* C19: in statistics mode the line written for a merged row holds exactly *)
(* one field per compute action, in the order of the actions, each the     *)
(* formatted value of its action over the whole numeric row; the raw       *)
(* fields are not written.                                                 *)
(***************************************************************************)
C19_OneValuePerAction ==
    Len(actions) > 0 =>
        /\ Len(output) = Len(merged)
        /\ \A r \in 1..Len(output) :
             /\ ~HasNonNumber(OutRowOf(merged[r]))
             /\ Len(output[r]) = Len(actions)
             /\ \A k \in 1..Len(actions) :
                  /\ output[r][k][1] = "%15.15f"
                  /\ IsValueOf(actions[k], output[r][k][2],
                               Numeric(OutRowOf(merged[r])))

\* the row 1, 2: max 2 and mean 3/2, in this order
C19_Witness ==
    /\ actions = <<"max", "mean">>
    /\ Len(output) >= 1
    /\ merged[1] = <<"1", "2">>
    /\ output[1] = <<Sprintf(Float(2)), Sprintf(Frac(3, 2))>>

(***************************************************************************)
(* C20: in statistics mode, when some field of output row r is not a       *)
(* number, printRow writes nothing for row r and processData returns the   *)
(* conversion error; nothing is written afterwards, the rows before r stay *)
(* written, and parseData returns that error after it has closed done and  *)
(* every fileParser has exited.                                            *)
(***************************************************************************)
C20_FloatErrorAborts ==
    /\ [][(/\ mpc = "print" /\ mpc' # mpc
           /\ Len(actions) > 0
           /\ HasNonNumber(OutRowOf(inRow)))
              => (/\ err' = FloatErr
                  /\ mpc' = "closeDone"
                  /\ output' = output)]_vars
    /\ [][err = FloatErr => (err' = FloatErr /\ output' = output)]_vars
    /\ [](err = FloatErr =>
            /\ mpc \in {"closeDone", "wait", "returned"}
            /\ Len(actions) > 0
            /\ HasNonNumber(OutRowOf(inRow))
            /\ Len(output) = row /\ Len(merged) = row)
    /\ []((mpc = "returned" /\ err = FloatErr) =>
            (done /\ \A f \in FileIds : fpc[f] = "exited"))

\* row 1 has failed after row 0 was written
C20_Witness ==
    /\ mpc = "returned" /\ err = FloatErr
    /\ Len(output) = 1
    /\ done /\ \A f \in FileIds : fpc[f] = "exited"

(***************************************************************************)
(* What the claims about a fileParser speak of.                            *)
(***************************************************************************)
\* line c of file f has fewer fields than some column of its spec asks for
LacksColumn(f, c) ==
    \E k \in 1..Len(inCols[f]) :
        inCols[f][k] >= Len(FieldsFunc(fileNames[f].lines[c + 1]))

\* the first column of the spec, in the order of the spec, that line c lacks
FirstLacking(f, c) ==
    inCols[f][CHOOSE k \in 1..Len(inCols[f]) :
        /\ inCols[f][k] >= Len(FieldsFunc(fileNames[f].lines[c + 1]))
        /\ \A h \in 1..(k - 1) :
               inCols[f][h] < Len(FieldsFunc(fileNames[f].lines[c + 1]))]

\* the errors of file f that are on errCh or were taken by processData
ErrorsOf(f) ==
    Cardinality({k \in 1..Len(errCh) : errCh[k].file = f})
        + (IF err.file = f THEN 1 ELSE 0)

(***************************************************************************)
(* C21: when a line the row filter wants has fewer fields than a requested *)
(* column index needs, the fileParser sends exactly one error, which names *)
(* the file and the first missing column; it sends neither that line nor a *)
(* later one on its data channel and goes on to its exit.                  *)
(***************************************************************************)
C21_MissingColumn ==
    /\ [][\A f \in FileIds :
            (/\ count'[f] # count[f]
             /\ count'[f] < Len(fileNames[f].lines)
             /\ Wanted(count'[f])
             /\ LacksColumn(f, count'[f]))
                => (/\ ferr'[f].kind = "column"
                    /\ errCh' = Append(errCh, ferr'[f]))]_vars
    /\ [][\A f \in FileIds :
            ferr[f].kind = "column"
                => (/\ ferr'[f] = ferr[f]
                    /\ count'[f] = count[f]
                    /\ sentLines'[f] = sentLines[f]
                    /\ Len(dataChs'[f]) <= Len(dataChs[f]))]_vars
    /\ [](\A f \in FileIds :
            ferr[f].kind = "column"
                => /\ Wanted(count[f]) /\ LacksColumn(f, count[f])
                   /\ ferr[f].file = f
                   /\ ferr[f].col = FirstLacking(f, count[f])
                   /\ \A k \in 1..Len(sentLines[f]) :
                          sentLines[f][k] < count[f]
                   /\ fpc[f] \in {"close", "wgDone", "exited"}
                   /\ fexit[f] = "error"
                   /\ ErrorsOf(f) = 1)

\* line 0 was sent, line 1 lacks column 1; the fileParser has exited
C21_Witness ==
    \E f \in FileIds :
        /\ ferr[f].kind = "column" /\ ferr[f].col = 1
        /\ count[f] = 1 /\ sentLines[f] = <<0>>
        /\ fpc[f] = "exited"

(***************************************************************************)
(* What the claims about configuration errors speak of: the well-formed    *)
(* spec strings, by the positions of their characters.                     *)
(***************************************************************************)
\* the pieces of s between the separators, as pairs of positions
Segments(s, sep) ==
    {p \in (1..(Len(s) + 1)) \X (0..Len(s)) :
        /\ p[1] <= p[2] + 1
        /\ p[1] = 1 \/ s[p[1] - 1] = sep
        /\ p[2] = Len(s) \/ s[p[2] + 1] = sep
        /\ \A k \in p[1]..p[2] : s[k] # sep}

\* t is a column index
IsIndex(t) == Len(t) > 0 /\ \A k \in 1..Len(t) : IsDigit(t[k])
\* t is a specifier a or a-b
IsSpecifier(t) ==
    \/ IsIndex(t)
    \/ \E d \in 1..Len(t) :
         /\ t[d] = "-"
         /\ IsIndex(SubSeq(t, 1, d - 1))
         /\ IsIndex(SubSeq(t, d + 1, Len(t)))
\* s is a list of specifiers; blanks around a specifier are allowed
IsSpecifierList(s) ==
    \A p \in Segments(s, ",") : IsSpecifier(TrimSpace(SubSeq(s, p[1], p[2])))
\* s is an input spec: lists of specifiers separated by |
IsInputSpecText(s) ==
    \A p \in Segments(s, "|") : IsSpecifierList(SubSeq(s, p[1], p[2]))

(***************************************************************************)
(* C22 (refuted by the code): a run in which parseData starts fileParsers  *)
(* and processData assembles rows has a configuration without error: an    *)
(* input spec of well-formed specifiers for at most numFiles files, and an *)
(* output spec of well-formed specifiers with every index in [0, numCols). *)
(***************************************************************************)
C22_ConfigErrorsStopRun ==
    /\ (calc.op = "parseData" /\ Len(calc.text) > 0) =>
         /\ IsInputSpecText(calc.text)
         /\ Cardinality(Segments(calc.text, "|")) <= calc.numFiles
    /\ (calc.op = "outRow" /\ Len(calc.text) > 0) =>
         /\ IsSpecifierList(calc.text)
         /\ \A k \in 1..Len(calc.spec) :
                0 <= calc.spec[k] /\ calc.spec[k] < calc.numCols

(***************************************************************************)
(* C23: parseRowSpec maps the specifiers of its list to row ranges in the  *)
(* order given, a to (a,a) and a-b to (a,b), without sorting or merging;   *)
(* it returns an error when the end of a specifier is smaller than its     *)
(* beginning, and for a text that is no list of specifiers.                *)
(***************************************************************************)
C23_RowRangesInOrder ==
    calc.op = "parseRowSpec" =>
        /\ calc.status \in {"ok", "error"}
        /\ calc.status = "ok" => IsSpecifierList(calc.text)
        /\ Len(calc.src) = 1 =>
             IF Ascending(calc.src)
               THEN /\ calc.status = "ok"
                    /\ calc.spec =
                         [k \in 1..Len(calc.src[1]) |->
                             [b |-> calc.src[1][k].a, e |-> calc.src[1][k].b]]
               ELSE calc.status = "error"

\* "1-2,0": overlapping the next one and not sorted
C23_Witness ==
    /\ calc.op = "parseRowSpec" /\ calc.status = "ok"
    /\ calc.text = <<"1", "-", "2", ",", "0">>
    /\ calc.spec = <<[b |-> 1, e |-> 2], [b |-> 0, e |-> 0]>>

(***************************************************************************)
(* C24 as claimed (refuted): the end of a column range is not among the    *)
(* columns, as for 0-2, which would select columns 0 and 1.                *)
(***************************************************************************)
\* calc holds the columns parsed for the one range a-b with a <= b
OneRangeParsed ==
    /\ calc.op = "parseOutputSpec" /\ calc.status = "ok"
    /\ Len(calc.src) = 1 /\ Len(calc.src[1]) = 1
    /\ calc.src[1][1].kind = "range"
    /\ calc.src[1][1].a <= calc.src[1][1].b

Width(f) == IF Len(inCols[f]) = 0 THEN 1 ELSE Len(inCols[f])

\* the sum of the widths of the sources 1..n
RECURSIVE TotalWidth(_)
TotalWidth(n) == IF n = 0 THEN 0 ELSE TotalWidth(n - 1) + Width(n)

\* row r with a placeholder of empty fields for every source that yields
\* fewer than r rows: the concatenation over the sources 1..n
RECURSIVE PaddedRow(_, _)
PaddedRow(r, n) ==
    IF n = 0 THEN <<>>
    ELSE PaddedRow(r, n - 1) \o
         (IF r <= Yield(n)
            THEN BuildRow(inCols[n], fileNames[n].lines[WantedIdxs(n)[r] + 1])
            ELSE [k \in 1..Width(n) |-> ""])

(***************************************************************************)
(* C25 (refuted by the code): with sources that open and scan without      *)
(* error, yield different numbers of rows, and rows that are numeric where *)
(* statistics are computed, a row is emitted for every row index up to the *)
(* largest number of rows a source yields; in it a source that has ended   *)
(* is replaced by a placeholder of empty fields, one per column of its     *)
(* column spec; no error is reported and the run ends with nil.            *)
(***************************************************************************)
C25_PlaceholderRows ==
    (mpc = "returned" /\ CleanSources /\ MinYield # MaxYield /\ NoFloatErr)
        => /\ err = NoErr
           /\ Len(merged) = MaxYield
           /\ Len(output) = MaxYield
           /\ \A r \in 1..Len(merged) : merged[r] = PaddedRow(r, NumFiles)

(***************************************************************************)
(* C26 (refuted by the code): every row emitted in a run over sources that *)
(* open and scan without error has, before the output spec is applied, as  *)
(* many fields as the column specs of all sources have columns (one for an *)
(* empty column spec), also when a source is empty or ends before the      *)
(* others.                                                                 *)
(***************************************************************************)
C26_RowWidth ==
    CleanSources =>
        \A r \in 1..Len(merged) : Len(merged[r]) = TotalWidth(NumFiles)

\* the sources processData has not marked dead
LiveSources == {f \in FileIds : ~deadChannels[f]}

\* processData has returned nil (line 195): parseData goes on to close done
ReturnedNil == mpc \in {"closeDone", "wait", "returned"} /\ err = NoErr

(***************************************************************************)
(* C27: in every state of processData activeChannels is the number of      *)
(* sources not marked dead and is never negative, and processData has      *)
(* returned nil exactly when activeChannels is 0; a step that changes      *)
(* activeChannels lowers it by one and marks one source dead that was not  *)
(* dead before, and a dead source stays dead, so that the counter is       *)
(* lowered at most once per source.                                        *)
(***************************************************************************)
C27_ActiveChannels ==
    /\ [](/\ activeChannels = Cardinality(LiveSources)
          /\ activeChannels >= 0
          /\ ReturnedNil <=> activeChannels = 0)
    /\ [][activeChannels' # activeChannels =>
             /\ activeChannels' = activeChannels - 1
             /\ \E f \in FileIds :
                  /\ ~deadChannels[f]
                  /\ deadChannels' = [deadChannels EXCEPT ![f] = TRUE]]_vars
    /\ [][\A f \in FileIds : deadChannels[f] => deadChannels'[f]]_vars

\* two sources, one without rows and one with two: the first is found closed
\* at each of three rows and counted once, and the run returns nil
C27_Witness ==
    /\ mpc = "returned"
    /\ err = NoErr
    /\ activeChannels = 0
    /\ NumFiles = 2
    /\ Len(merged) = 2
    /\ \E f \in FileIds : Yield(f) = 0 /\ deadChannels[f]

\* the ways a fileParser leaves its code: the source exhausted, the break
\* past maxEntry, an error sent on errCh, the receive on done
ExitPaths == {"eof", "break", "error", "done"}

(***************************************************************************)
(* C28: a fileParser closes its data channel exactly once on every exit    *)
(* path: the channel is open as long as the parser has not left its code,  *)
(* the step after any exit (source exhausted, break past maxEntry, open    *)
(* failure, missing column, scan error, cancellation) closes the open      *)
(* channel, a parser that has ended has a closed channel, a closed channel *)
(* stays closed, and nothing is sent on a closed channel.                  *)
(***************************************************************************)
C28_ClosesDataOnce ==
    /\ [](\A f \in FileIds :
            /\ dataClosed[f] <=> fpc[f] \in {"wgDone", "exited"}
            /\ fpc[f] \in {"close", "wgDone", "exited"}
                   <=> fexit[f] \in ExitPaths)
    /\ [][\A f \in FileIds :
            /\ (fpc[f] = "close" /\ fpc'[f] # "close")
                   => ~dataClosed[f] /\ dataClosed'[f]
            /\ dataClosed'[f] # dataClosed[f] => fpc[f] = "close"
            /\ dataClosed[f]
                   => /\ dataClosed'[f]
                      /\ sentRows'[f] = sentRows[f]
                      /\ sentLines'[f] = sentLines[f]
                      /\ Len(dataChs'[f]) <= Len(dataChs[f])]_vars

\* two fileParsers have ended with closed channels, one cancelled at its
\* send and one after an error
C28_Witness ==
    /\ NumFiles = 2
    /\ \A f \in FileIds : fpc[f] = "exited" /\ dataClosed[f]
    /\ \E f, g \in FileIds : fexit[f] = "done" /\ fexit[g] = "error"

\* fileParser f is at its select with a row to send, the data channel is
\* full and done is closed: only the case <-done can proceed
BlockedAtDone(f) ==
    f \in FileIds /\ done /\ fpc[f] = "send" /\ Len(dataChs[f]) = ChanCap

(***************************************************************************)
(* C29: a fileParser that is blocked at the send of a row on a full data   *)
(* channel when done is closed ends (as every fileParser then does), and   *)
(* it sends neither that row nor a later one: from the blocked state its   *)
(* only step is the return of the case <-done, the channel keeps its       *)
(* content, and after that return its count, the rows and the lines it has *)
(* sent never change; the line it gave up is not among the lines sent.     *)
(***************************************************************************)
C29_BlockedSenderCancelled ==
    /\ (\E f \in FileIds : BlockedAtDone(f))
           ~> (\A f \in FileIds : fpc[f] = "exited")
    /\ [][\A f \in FileIds :
            BlockedAtDone(f)
                => /\ sentRows'[f] = sentRows[f]
                   /\ sentLines'[f] = sentLines[f]
                   /\ dataChs'[f] = dataChs[f]
                   /\ count'[f] = count[f]
                   /\ fpc'[f] = "send" \/ (fpc'[f] = "close"
                                             /\ fexit'[f] = "done")]_vars
    /\ [][\A f \in FileIds :
            fexit[f] = "done"
                => /\ fexit'[f] = "done"
                   /\ fpc'[f] # "send"
                   /\ sentRows'[f] = sentRows[f]
                   /\ sentLines'[f] = sentLines[f]
                   /\ count'[f] = count[f]]_vars
    /\ [](\A f \in FileIds :
            fexit[f] = "done"
                => \A k \in 1..Len(sentLines[f]) : sentLines[f][k] < count[f])

\* a fileParser has ended by the case <-done with its data channel full and
\* the row of its second line unsent
C29_Witness ==
    \E f \in FileIds :
        /\ done
        /\ fpc[f] = "exited"
        /\ fexit[f] = "done"
        /\ Len(dataChs[f]) = ChanCap
        /\ count[f] = 1
        /\ sentLines[f] = <<0>>

(***************************************************************************)
(* C30 (refuted by the code): once done is closed no fileParser puts       *)
(* another row on its data channel, also when the channel has room: no     *)
(* step taken with done closed adds to the rows a fileParser has sent or   *)
(* lengthens a data channel.                                               *)
(***************************************************************************)
C30_NoSendAfterDone ==
    [][done => \A f \in FileIds :
                  /\ sentRows'[f] = sentRows[f]
                  /\ Len(dataChs'[f]) <= Len(dataChs[f])]_vars

\* the rows fileParser f has built that processData has not received: the
\* rows in the buffer of its channel and the row it is about to send
RowsAhead(f) == Len(dataChs[f]) + (IF fpc[f] = "send" THEN 1 ELSE 0)

(***************************************************************************)
(* C31: a data channel never holds more rows than its capacity, so that a  *)
(* fileParser is at most capacity + 1 rows ahead of processData (the       *)
(* buffered rows and the row in its hand); a fileParser at its send with   *)
(* the channel full stays there, sending nothing, unless done is closed    *)
(* and it returns; the rows received are those sent less those buffered.   *)
(***************************************************************************)
C31_BoundedBuffer ==
    /\ [](\A f \in FileIds :
            /\ Len(dataChs[f]) <= ChanCap
            /\ RowsAhead(f) <= ChanCap + 1
            /\ Len(dataChs[f]) <= Len(sentRows[f]))
    /\ [][\A f \in FileIds :
            (fpc[f] = "send" /\ Len(dataChs[f]) = ChanCap)
                => /\ sentRows'[f] = sentRows[f]
                   /\ Len(dataChs'[f]) <= Len(dataChs[f])
                   /\ fpc'[f] = "send" \/ (done /\ fpc'[f] = "close")]_vars

\* a fileParser has sent its first row, holds the second, and waits at its
\* send on the full channel while processData is still running
C31_Witness ==
    \E f \in FileIds :
        /\ ~done
        /\ mpc = "select"
        /\ fpc[f] = "send"
        /\ Len(dataChs[f]) = ChanCap
        /\ RowsAhead(f) = ChanCap + 1
        /\ Len(sentRows[f]) = 1

\* the fileParsers that have sent an error on errCh
ErrSenders == {f \in FileIds : ferr[f] # NoErr}

(***************************************************************************)
(* C32: a fileParser sends at most one error in a run: an error is put on  *)
(* errCh only by a parser that has sent none, and that parser is then on   *)
(* its way out; errCh holds at most one error per parser that has sent     *)
(* one, so a parser that is still in its code finds room on errCh (its     *)
(* capacity is the number of files) and finds it open; errCh is closed     *)
(* only when every fileParser has ended.                                   *)
(***************************************************************************)
C32_ErrorChannel ==
    /\ [](/\ Len(errCh) <= Cardinality(ErrSenders)
          /\ Cardinality(ErrSenders) <= NumFiles
          /\ errClosed => \A f \in FileIds : fpc[f] = "exited"
          /\ \A f \in FileIds :
               /\ fpc[f] \in {"open", "scan", "send"}
                     => ferr[f] = NoErr /\ CanSendErr
               /\ ferr[f] # NoErr => fexit[f] = "error")
    /\ [][/\ Len(errCh') <= Len(errCh) + 1
          /\ Len(errCh') = Len(errCh) + 1
                => \E f \in FileIds :
                     /\ ferr[f] = NoErr
                     /\ ferr' = [ferr EXCEPT ![f] = errCh'[Len(errCh')]]
                     /\ ferr'[f] # NoErr
                     /\ fpc'[f] = "close"
                     /\ ~errClosed
          /\ \A f \in FileIds : ferr[f] # NoErr => ferr'[f] = ferr[f]
          /\ errClosed => errClosed' /\ errCh' = errCh]_vars

\* both fileParsers have sent their error, processData has taken one, the
\* other is still on errCh, and errCh was closed after both had ended
C32_Witness ==
    /\ mpc = "returned"
    /\ errClosed
    /\ NumFiles = 2
    /\ ErrSenders = FileIds
    /\ Len(errCh) = 1
    /\ err # NoErr

\* What a run over clean sources emits, as a function of the files and the
\* configuration alone.  Source n gives row r its r-th wanted line, and
\* after its last one the placeholder made at row 0: as many empty fields
\* as its rows have, none when it has no row at all.
RECURSIVE FixedRow(_, _)
FixedRow(r, n) ==
    IF n = 0 THEN <<>>
    ELSE FixedRow(r, n - 1) \o
         (IF r <= Yield(n)
            THEN BuildRow(inCols[n], fileNames[n].lines[WantedIdxs(n)[r] + 1])
            ELSE MakeStrings(IF Yield(n) = 0 THEN 0 ELSE Width(n)))

FixedRows == [r \in 1..MaxYield |-> FixedRow(r, NumFiles)]

\* the output row of a merged row (lines 218-224)
FixedOut(r) ==
    IF Len(outCols) = 0 THEN r ELSE [k \in 1..Len(outCols) |-> r[outCols[k] + 1]]

\* the output spec indexes beyond the merged row: the run panics there
FixedPanics(r) == \E k \in 1..Len(outCols) : outCols[k] >= Len(r)

\* the row cannot be printed: the panic, or the error of splitIntoFloats
FixedStops(r) ==
    FixedPanics(r) \/ (Len(actions) > 0 /\ SplitFails(FixedOut(r)))

\* the first row that cannot be printed, MaxYield + 1 when there is none
FirstStop ==
    Min({r \in 1..MaxYield : FixedStops(FixedRows[r])} \cup {MaxYield + 1})

(***************************************************************************)
(* C33: over sources that open and scan without error the rows emitted and *)
(* the result of parseData are fixed by the files and the configuration,   *)
(* whatever the interleaving of the fileParsers and processData: at every  *)
(* moment the rows emitted are the first rows of one fixed sequence, and   *)
(* the run ends after all of them up to the first one that cannot be       *)
(* printed, with nil when there is none, with the conversion error or the  *)
(* index panic of that row otherwise.                                      *)
(***************************************************************************)
C33_Deterministic ==
    CleanSources =>
        /\ IsPrefix(merged, FixedRows)
        /\ Len(merged) < FirstStop
        /\ output = [r \in 1..Len(merged) |-> RowLine(FixedOut(FixedRows[r]))]
        /\ mpc \in {"closeDone", "wait", "returned"}
              => /\ Len(merged) = FirstStop - 1
                 /\ err = IF FirstStop > MaxYield THEN NoErr ELSE FloatErr
                 /\ FirstStop <= MaxYield => ~FixedPanics(FixedRows[FirstStop])
        /\ mpc = "panic"
              => /\ Len(merged) = FirstStop - 1
                 /\ FirstStop <= MaxYield
                 /\ FixedPanics(FixedRows[FirstStop])

\* two clean sources of one and two rows: the run has returned nil with
\* the two rows emitted
C33_Witness ==
    /\ mpc = "returned"
    /\ CleanSources
    /\ NumFiles = 2
    /\ MinYield = 1
    /\ MaxYield = 2
    /\ err = NoErr
    /\ Len(output) = 2

(***************************************************************************)
(* C34: in raw mode, with an empty output spec every emitted row is the    *)
(* merged row of its row index unchanged; with an output spec o it has     *)
(* Len(o) fields, the k-th being the field at position o[k] of the merged  *)
(* row of the same row index, with repeated and reordered positions; over  *)
(* clean sources that merged row is made of the lines of that row index,   *)
(* not of an earlier one.                                                  *)
(***************************************************************************)
C34_OutputSelection ==
    Len(actions) = 0 =>
        /\ Len(output) = Len(merged)
        /\ \A r \in 1..Len(output) :
             /\ Len(outCols) = 0 => output[r] = merged[r]
             /\ Len(outCols) > 0
                   => /\ Len(output[r]) = Len(outCols)
                      /\ \A k \in 1..Len(outCols) :
                           /\ outCols[k] < Len(merged[r])
                           /\ output[r][k] = merged[r][outCols[k] + 1]
             /\ CleanSources => merged[r] = FixedRow(r, NumFiles)

\* two rows were emitted under the output spec 1,0,1: the second differs
\* from the first and repeats a field of the second merged row
C34_Witness ==
    /\ mpc = "returned"
    /\ CleanSources
    /\ outCols = <<1, 0, 1>>
    /\ Len(output) = 2
    /\ output[1] # output[2]
    /\ output[2][1] = output[2][3]
    /\ output[2][1] # output[2][2]
    /\ merged[1] # merged[2]

\* the ranges of the source are well formed: begin <= end
RowSourceValid(src) == \A k \in 1..Len(src) : src[k].a <= src[k].b

\* v lies in one of the ranges the source gives
InRowSource(src, v) ==
    \E k \in 1..Len(src) : src[k].a <= v /\ v <= src[k].b

(***************************************************************************)
(* C35 (refuted by the code): for a row spec string of well-formed ranges, *)
(* given in any order and overlapping, getRowSpec returns without error a  *)
(* filter that is sorted by begin and holds the ranges of its argument, so *)
(* that contains(v) on it is true exactly when v lies in one of the ranges *)
(* given.                                                                  *)
(***************************************************************************)
C35_RowSpecOfArgument ==
    (calc.op \in {"getRowSpec", "contains"} /\ RowSourceValid(calc.src))
        => /\ calc.status = "ok"
           /\ SortedByBegin(calc.spec)
           /\ Len(calc.spec) = Len(calc.src)
           /\ \A k \in 1..Len(calc.src) :
                \E j \in 1..Len(calc.spec) :
                   calc.spec[j] = rowRange(calc.src[k].a, calc.src[k].b)
           /\ calc.op = "contains"
                 => (calc.found <=> InRowSource(calc.src, calc.v))

\* the values stored in smaller (kept negated there) and in larger
SmallerVals(m) == [k \in 1..Len(m.smaller) |-> FNeg(m.smaller[k])]
LargerVals(m) == m.larger

\* x is not above y
FLeq(x, y) == ~FLess(y, x)

\* how often x occurs in fs
Occurs(fs, x) == Cardinality({k \in 1..Len(fs) : fs[k] = x})

(***************************************************************************)
(* C36: after every call of updateMedian every value stored in smaller is  *)
(* <= every value stored in larger; val is the median of all the values    *)
(* inserted so far, the values of smaller are <= val and those of larger   *)
(* are >= val; the two heaps together hold the values inserted.            *)
(***************************************************************************)
C36_HeapsOrdered ==
    calc.op = "updateMedian" =>
        LET m == calc.m IN
        /\ \A j \in 1..Len(m.smaller) : \A k \in 1..Len(m.larger) :
              FLeq(SmallerVals(m)[j], LargerVals(m)[k])
        /\ m.val = SortedMedian(calc.fs)
        /\ \A j \in 1..Len(m.smaller) : FLeq(SmallerVals(m)[j], m.val)
        /\ \A k \in 1..Len(m.larger) : FLeq(m.val, LargerVals(m)[k])
        /\ \A j \in 1..Len(calc.fs) :
              Occurs(calc.fs, calc.fs[j]) =
                  Occurs(SmallerVals(m), calc.fs[j])
                      + Occurs(LargerVals(m), calc.fs[j])

\* five values with the median value on both sides: smaller and larger both
\* hold a value equal to val, and a value strictly below or above it
C36_Witness ==
    /\ calc.op = "updateMedian"
    /\ Len(calc.fs) = 5
    /\ \E j \in 1..Len(calc.m.smaller) : SmallerVals(calc.m)[j] = calc.m.val
    /\ \E k \in 1..Len(calc.m.larger) : LargerVals(calc.m)[k] = calc.m.val
    /\ \E j \in 1..Len(calc.m.smaller) :
          FLess(SmallerVals(calc.m)[j], calc.m.val)
    /\ \E k \in 1..Len(calc.m.larger) :
          FLess(calc.m.val, LargerVals(calc.m)[k])

(***************************************************************************)
(* C37 (refuted by the code): what a run has written to standard output is *)
(* the sequence of the rows emitted, one line per row, each written by     *)
(* printRow: getComputeSpecs, like the other parsers of the configuration, *)
(* writes nothing to it.                                                   *)
(***************************************************************************)
C37_StdoutIsRows ==
    calc.op \in {"getComputeSpecs", "printRow"}
        => /\ Len(calc.stdout) = Len(output)
           /\ \A k \in 1..Len(calc.stdout) :
                /\ calc.stdout[k].by = "printRow"
                /\ calc.stdout[k].line = output[k]

\* some specifier of the source is a range a-b with b < a
HasDescendingRange(src) ==
    \E n \in 1..Len(src) : \E k \in 1..Len(src[n]) :
        src[n][k].kind = "range" /\ src[n][k].b < src[n][k].a

(***************************************************************************)
(* C38 (refuted by the code): for a spec with a column range a-b, b < a,   *)
(* parseInputSpec and parseOutputSpec return an error, as parseRowSpec     *)
(* does: they do not panic and do not take the range for an empty list of  *)
(* columns.                                                                *)
(***************************************************************************)
C38_DescendingRangeRejected ==
    (/\ calc.op \in {"parseInputSpec", "parseOutputSpec", "parseRowSpec"}
     /\ HasDescendingRange(calc.src))
        => calc.status = "error"

(***************************************************************************)
(* C39 (refuted by the code): with an empty column spec the row a          *)
(* fileParser sends for a line has one field, the line without its leading *)
(* and trailing whitespace (the separators inside the line kept).          *)
(***************************************************************************)
C39_RawLineTrimmed ==
    \A f \in FileIds :
        Len(inCols[f]) = 0 =>
            \A k \in 1..Len(sentRows[f]) :
                sentRows[f][k] =
                    <<TrimLine(fileNames[f].lines[sentLines[f][k] + 1])>>

(***************************************************************************)
(* C40 (refuted by the code): for a non-empty parseSpec p, minMax returns  *)
(* the smallest and the largest value of p, also when p has one value or   *)
(* is ascending.                                                           *)
(***************************************************************************)
C40_MinMax ==
    (calc.op = "minMax" /\ Len(calc.spec) > 0)
        => /\ \E k \in 1..Len(calc.spec) : calc.spec[k] = calc.minVal
           /\ \E k \in 1..Len(calc.spec) : calc.spec[k] = calc.maxVal
           /\ \A k \in 1..Len(calc.spec) :
                calc.minVal <= calc.spec[k] /\ calc.spec[k] <= calc.maxVal

====
